---- MODULE Spec2Model ----
(***************************************************************************)
(* Verification model of the counterparty-core consensus core:             *)
(*   lib/messages/dispenser.py  (validate, compose, unpack, parse,         *)
(*                               DispensableCache, is_dispensable,         *)
(*                               close_pending)                            *)
(*   lib/messages/broadcast.py  (validate, compose, unpack, parse)         *)
(* and of the API server in front of it:                                   *)
(*   lib/api/apiserver.py       (handle_route, execute_api_function and    *)
(*                               BLOCK_CACHE, run_apiserver, APIServer)    *)
(*                                                                         *)
(* Python values are modelled as follows.  bytes are sequences of          *)
(* naturals below 256.  None is the string "None".  A list of problems is  *)
(* a sequence of reason strings.  An exception that escapes parse is       *)
(* recorded in the variable raised and stops the parser.                   *)
(***************************************************************************)
EXTENDS Integers, Sequences, FiniteSets, TLC

VARIABLES
    flags,              \* protocol flag table evaluated at the current height
    block_index,        \* CurrentState().current_block_index()
    tx_index,           \* index of the next transaction
    balances,           \* balances table: <<address, asset>> -> quantity
    dispensers,         \* dispensers table, rows in tx_index order
    dispenser_refills,  \* dispenser_refills table
    dispenses,          \* dispenses table
    dispensable,        \* DispensableCache().dispensable, as a set
    oracle,             \* what get_oracle_last_price returns for the oracle
    raised,             \* the exception that escaped the parser, or "none"
    call,               \* a compose call and the unpack of what it emitted
    broadcasts,         \* broadcasts table, rows in insertion order
    bet_matches,        \* bet_matches table
    bets,               \* bets table
    addresses,          \* addresses table: address -> options
    bet_match_resolutions,  \* bet_match_resolutions table
    parsing_mempool,    \* CurrentState().parsing_mempool()
    api_config,         \* config.FORCE, config.API_ONLY, config.DISABLE_API_CACHE
    last_block_parsed,  \* apiwatcher.get_last_block_parsed(state_db)
    backend_height,     \* CurrentState().current_backend_height(): <<>> is None
    BLOCK_CACHE,        \* the OrderedDict BLOCK_CACHE: <<key, result>> in insertion order
    handlers,           \* the request handlers of the WSGI server and where they stand
    server_ready_value, \* the shared Value("I", 0) of APIServer
    api_process         \* APIServer.process and the run of run_apiserver in it

vars == <<flags, block_index, tx_index, balances, dispensers, dispenser_refills,
          dispenses, dispensable, oracle, raised, call,
          broadcasts, bet_matches, bets, addresses, bet_match_resolutions,
          parsing_mempool, api_config, last_block_parsed, backend_height, BLOCK_CACHE,
          handlers, server_ready_value, api_process>>

\* the tables of the broadcast engine
broadcast_tables == <<broadcasts, bet_matches, bets, addresses, bet_match_resolutions>>

\* the tables of the dispenser engine
dispenser_tables == <<dispensers, dispenser_refills, dispenses, dispensable, oracle>>

\* the state of the API server process
api_server == <<api_config, last_block_parsed, backend_height, BLOCK_CACHE, handlers,
                server_ready_value, api_process>>

\* what the block parser of a node leaves alone
outside_ledger == <<parsing_mempool, api_server>>

\* what the API server leaves alone
ledger == <<flags, block_index, tx_index, balances, dispenser_tables, raised, call,
            broadcast_tables, parsing_mempool>>

\* what the dispenser state machine leaves alone
outside_dispenser == <<call, broadcast_tables>>

---------------------------------------------------------------------------
(* Bounds of the model *)

MaxTx == 2              \* dispenser messages that leave a record in one behaviour
MaxDispenses == 1       \* dispenses in one behaviour
CloseDelay == 2         \* the non-zero value of dispenser_close_delay
MaxRefills == 1         \* the non-zero value of max_refills
FirstBlock == 2         \* block height at the start
InitialBalance == 3     \* XCP of address A at the start

---------------------------------------------------------------------------
(* Generic helpers *)

None == "None"

Min(a, b) == IF a <= b THEN a ELSE b

Range(s) == {s[i] : i \in DOMAIN s}

RECURSIVE SeqSum(_)
SeqSum(s) == IF s = <<>> THEN 0 ELSE Head(s) + SeqSum(Tail(s))

Repeat(b, n) == [i \in 1..n |-> b]

\* Python slice s[a:b] (0-based, end exclusive, clipped to the sequence)
Slice(s, a, b) == SubSeq(s, a + 1, Min(b, Len(s)))

\* struct.pack(">Q" / ">I" / ">B", n): big-endian, w bytes
RECURSIVE PackBE(_, _)
PackBE(n, w) == IF w = 0 THEN <<>> ELSE Append(PackBE(n \div 256, w - 1), n % 256)

\* struct.unpack of a big-endian unsigned integer
RECURSIVE UnpackBE(_)
UnpackBE(bs) ==
    IF bs = <<>> THEN 0 ELSE UnpackBE(SubSeq(bs, 1, Len(bs) - 1)) * 256 + bs[Len(bs)]

---------------------------------------------------------------------------
(* Constants of dispenser.py *)

DISPENSER_LENGTH == 33
STATUS_OPEN == 0
STATUS_OPEN_EMPTY_ADDRESS == 1
STATUS_CLOSED == 10
STATUS_CLOSING == 11

\* config.py (not among the sources): the values the specification gives
UNIT == 100000000
\* TLC integers are 32 bits wide: MAX_INT stands for 2^63 - 1 and keeps
\* MAX_INT + 1 representable; only comparisons are made with it
MAX_INT == 2000000000
DEFAULT_REGULAR_DUST_SIZE == 546
BTC == "BTC"
XCP == "XCP"

Addresses == {"A", "B", "E"}
OracleAddress == "O"

\* protocol.enabled(name, block_index) / protocol.get_value_by_block_index
enabled(name) == flags[name]
get_value_by_block_index(name) == flags[name]

---------------------------------------------------------------------------
(* address.pack_legacy / unpack_legacy and issuances.generate_asset_id /     *)
(* generate_asset_name are not among the sources: 21 bytes, one version    *)
(* byte and a 20-byte hash; asset ids 0 and 1 are BTC and XCP.             *)

AddressCode(a) ==
    CASE a = "A" -> 1 [] a = "B" -> 2 [] a = "E" -> 3 [] a = OracleAddress -> 4
      [] OTHER -> 9

PackedAddresses ==
    [a \in Addresses \cup {OracleAddress} |-> <<0>> \o Repeat(0, 19) \o <<AddressCode(a)>>]

address_pack(a) == PackedAddresses[a]

\* the result is "UnpackError" for the empty slice; a slice that is no
\* packed address of the model decodes to an address nobody controls
address_unpack(bs) ==
    IF bs = <<>> THEN "UnpackError"
    ELSE IF \E a \in DOMAIN PackedAddresses : PackedAddresses[a] = bs
         THEN CHOOSE a \in DOMAIN PackedAddresses : PackedAddresses[a] = bs
         ELSE "G"

generate_asset_id(asset) == IF asset = BTC THEN 0 ELSE 1
generate_asset_name(asset_id) == IF asset_id = 0 THEN BTC ELSE XCP
---------------------------------------------------------------------------
(* Ledger queries (ledger.balances, ledger.markets, ledger.other): the      *)
(* engines' read interface, implemented outside the sources.  Rows come    *)
(* back in tx_index order.                                                 *)

get_balance_rows(address, asset) ==
    IF <<address, asset>> \in DOMAIN balances THEN <<balances[<<address, asset>>]>> ELSE <<>>

get_balance(address, asset) ==
    IF <<address, asset>> \in DOMAIN balances THEN balances[<<address, asset>>] ELSE 0

get_balances_count(address) == Cardinality({k \in DOMAIN balances : k[1] = address})

get_address_assets(address) == {k[2] : k \in {r \in DOMAIN balances : r[1] = address}}

\* get_dispensers(db, status_in=..., address=..., asset=...)
get_dispensers(status_in, address, asset) ==
    SelectSeq(dispensers, LAMBDA d :
        d.status \in status_in /\ d.source = address /\ d.asset = asset)

\* get_dispensers(db, status_in=..., address=..., asset=..., origin=...)
get_dispensers_origin(status_in, address, asset, origin) ==
    SelectSeq(dispensers, LAMBDA d :
        d.status \in status_in /\ d.source = address /\ d.asset = asset /\ d.origin = origin)

\* get_dispensers(db, address=..., status_in=[0, 11])
get_dispensers_at(status_in, address) ==
    SelectSeq(dispensers, LAMBDA d : d.status \in status_in /\ d.source = address)

get_dispensers_count(source, status, origin) ==
    Len(SelectSeq(dispensers, LAMBDA d :
        d.source = source /\ d.status = status /\ d.origin = origin))

get_refilling_count(dispenser_tx_hash) ==
    Len(SelectSeq(dispenser_refills, LAMBDA r : r.dispenser_tx_hash = dispenser_tx_hash))

\* dispensers Closing whose close_block_index has been reached
get_pending_dispensers(at_block) ==
    {i \in DOMAIN dispensers :
        dispensers[i].status = STATUS_CLOSING /\ dispensers[i].close_block_index <= at_block}

\* get_oracle_last_price: (last_price, last_fee, ...) of the oracle's feed;
\* last_price is None while the oracle has broadcast no price
get_oracle_last_price(oracle_address) ==
    IF oracle_address = OracleAddress THEN oracle
    ELSE [has_price |-> FALSE, last_price |-> 0, last_fee |-> 0]

\* index in the table of the row a query returned
RowId(d) == CHOOSE i \in DOMAIN dispensers : dispensers[i].tx_hash = d.tx_hash

---------------------------------------------------------------------------
(* dispenser.get_oldest_tx: the look-aside file of oldest confirmed bitcoin *)
(* transactions.  In the model the funded addresses have one in block 1.   *)

get_oldest_tx(source_address) ==
    IF source_address \in {"A", "B"} THEN [has |-> TRUE, block_index |-> 1]
    ELSE [has |-> FALSE, block_index |-> 0]

---------------------------------------------------------------------------
(* dispenser.validate *)

ValidateQuantities(give_quantity, escrow_quantity, mainchainrate, status) ==
    IF status \in {STATUS_OPEN, STATUS_OPEN_EMPTY_ADDRESS}
    THEN (IF give_quantity <= 0 THEN <<"give_quantity must be positive">> ELSE <<>>)
         \o (IF mainchainrate <= 0 THEN <<"mainchainrate must be positive">> ELSE <<>>)
         \o (IF escrow_quantity < give_quantity
             THEN <<"escrow_quantity must be greater or equal than give_quantity">>
             ELSE <<>>)
    ELSE IF status # STATUS_CLOSED THEN <<"invalid status">> ELSE <<>>

\* variant: the limit is reached one refill later
ValidateRefillOneMore(open_dispensers, give_quantity, mainchainrate) ==
    LET max_refills == get_value_by_block_index("max_refills")
        refilling_count == IF max_refills > 0
                           THEN get_refilling_count(open_dispensers[1].tx_hash)
                           ELSE 0
    IN  IF open_dispensers[1].satoshirate = mainchainrate
           /\ open_dispensers[1].give_quantity = give_quantity
        THEN IF refilling_count > max_refills /\ max_refills > 0
             THEN <<"the dispenser reached its maximum refilling">>
             ELSE <<>>
        ELSE (IF open_dispensers[1].satoshirate # mainchainrate
              THEN <<"address has a dispenser already opened with a different mainchainrate">>
              ELSE <<>>)
             \o (IF open_dispensers[1].give_quantity # give_quantity
                 THEN <<"address has a dispenser already opened with a different give_quantity">>
                 ELSE <<>>)

\* the refill branch: open_dispensers is not empty
ValidateRefill(open_dispensers, give_quantity, mainchainrate) ==
    LET max_refills == get_value_by_block_index("max_refills")
        refilling_count == IF max_refills > 0
                           THEN get_refilling_count(open_dispensers[1].tx_hash)
                           ELSE 0
    IN  IF open_dispensers[1].satoshirate = mainchainrate
           /\ open_dispensers[1].give_quantity = give_quantity
        THEN IF refilling_count >= max_refills /\ max_refills > 0
             THEN <<"the dispenser reached its maximum refilling">>
             ELSE <<>>
        ELSE (IF open_dispensers[1].satoshirate # mainchainrate
              THEN <<"address has a dispenser already opened with a different mainchainrate">>
              ELSE <<>>)
             \o (IF open_dispensers[1].give_quantity # give_quantity
                 THEN <<"address has a dispenser already opened with a different give_quantity">>
                 ELSE <<>>)

\* variant: the empty-address rule asks for a positive balance, not for a row
ValidateEmptyAddressPositive(source, query_address, open_dispensers) ==
    IF enabled("dispenser_origin_permission_extended")
       /\ Len(open_dispensers) > 0 /\ open_dispensers[1].origin = source
    THEN <<>>
    ELSE IF enabled("dispenser_origin_permission_extended")
            /\ get_dispensers_count(query_address, STATUS_CLOSED, source) > 0
    THEN <<>>
    ELSE (IF \E asset \in get_address_assets(query_address) :
                 get_balance(query_address, asset) > 0
          THEN <<"cannot open on another address if it has any balance history">>
          ELSE <<>>)
         \o (IF enabled("dispenser_origin_permission_extended")
                /\ get_oldest_tx(query_address).has
                /\ get_oldest_tx(query_address).block_index > 0
                /\ block_index > get_oldest_tx(query_address).block_index
             THEN <<"cannot open on another address if it has any confirmed bitcoin txs">>
             ELSE <<>>)

\* the empty-address rule: status is STATUS_OPEN_EMPTY_ADDRESS
ValidateEmptyAddress(source, query_address, open_dispensers) ==
    IF enabled("dispenser_origin_permission_extended")
       /\ Len(open_dispensers) > 0 /\ open_dispensers[1].origin = source
    THEN <<>>
    ELSE IF enabled("dispenser_origin_permission_extended")
            /\ get_dispensers_count(query_address, STATUS_CLOSED, source) > 0
    THEN <<>>
    ELSE (IF get_balances_count(query_address) > 0
          THEN <<"cannot open on another address if it has any balance history">>
          ELSE <<>>)
         \o (IF enabled("dispenser_origin_permission_extended")
                /\ get_oldest_tx(query_address).has
                /\ get_oldest_tx(query_address).block_index > 0
                /\ block_index > get_oldest_tx(query_address).block_index
             THEN <<"cannot open on another address if it has any confirmed bitcoin txs">>
             ELSE <<>>)

\* variant: a dispenser about to close does not stop validate
ValidateDispensersWhileClosing(problems, source, asset, give_quantity, mainchainrate, status0, open_address0) ==
    LET defaulted == status0 = STATUS_OPEN_EMPTY_ADDRESS /\ open_address0 = None
        open_address == IF defaulted THEN source ELSE open_address0
        status1 == IF defaulted THEN STATUS_OPEN ELSE status0
        status == IF enabled("dispenser_must_be_created_by_source")
                     /\ status1 = STATUS_OPEN_EMPTY_ADDRESS /\ open_address = source
                  THEN STATUS_OPEN ELSE status1
        query_address == IF status = STATUS_OPEN_EMPTY_ADDRESS THEN open_address ELSE source
        open_dispensers ==
            IF enabled("dispenser_origin_permission_extended")
               /\ status = STATUS_CLOSED /\ open_address # None /\ open_address # source
            THEN get_dispensers_origin({STATUS_OPEN, STATUS_CLOSING}, open_address, asset, source)
            ELSE get_dispensers({STATUS_OPEN, STATUS_CLOSING}, query_address, asset)
    IN  IF TRUE
        THEN LET p1 == IF status \in {STATUS_OPEN, STATUS_OPEN_EMPTY_ADDRESS}
                       THEN IF Len(open_dispensers) > 0
                            THEN ValidateRefill(open_dispensers, give_quantity, mainchainrate)
                            ELSE <<>>
                       ELSE IF status = STATUS_CLOSED /\ Len(open_dispensers) = 0
                            THEN <<"address doesn't have an open dispenser">>
                            ELSE <<>>
                 p2 == IF status = STATUS_OPEN_EMPTY_ADDRESS
                       THEN ValidateEmptyAddress(source, query_address, open_dispensers)
                       ELSE <<>>
                 p3 == IF Len(problems \o p1 \o p2) = 0 /\ generate_asset_id(asset) = 0
                       THEN <<"cannot dispense asset">>
                       ELSE <<>>
             IN  p1 \o p2 \o p3
        ELSE <<"address has already a dispenser about to close, no action can be taken until it closes">>

\* the last else branch of validate: balance and creator checks passed
ValidateDispensers(problems, source, asset, give_quantity, mainchainrate, status0, open_address0) ==
    LET defaulted == status0 = STATUS_OPEN_EMPTY_ADDRESS /\ open_address0 = None
        open_address == IF defaulted THEN source ELSE open_address0
        status1 == IF defaulted THEN STATUS_OPEN ELSE status0
        status == IF enabled("dispenser_must_be_created_by_source")
                     /\ status1 = STATUS_OPEN_EMPTY_ADDRESS /\ open_address = source
                  THEN STATUS_OPEN ELSE status1
        query_address == IF status = STATUS_OPEN_EMPTY_ADDRESS THEN open_address ELSE source
        open_dispensers ==
            IF enabled("dispenser_origin_permission_extended")
               /\ status = STATUS_CLOSED /\ open_address # None /\ open_address # source
            THEN get_dispensers_origin({STATUS_OPEN, STATUS_CLOSING}, open_address, asset, source)
            ELSE get_dispensers({STATUS_OPEN, STATUS_CLOSING}, query_address, asset)
    IN  IF Len(open_dispensers) = 0 \/ open_dispensers[1].status # STATUS_CLOSING
        THEN LET p1 == IF status \in {STATUS_OPEN, STATUS_OPEN_EMPTY_ADDRESS}
                       THEN IF Len(open_dispensers) > 0
                            THEN ValidateRefill(open_dispensers, give_quantity, mainchainrate)
                            ELSE <<>>
                       ELSE IF status = STATUS_CLOSED /\ Len(open_dispensers) = 0
                            THEN <<"address doesn't have an open dispenser">>
                            ELSE <<>>
                 p2 == IF status = STATUS_OPEN_EMPTY_ADDRESS
                       THEN ValidateEmptyAddress(source, query_address, open_dispensers)
                       ELSE <<>>
                 p3 == IF Len(problems \o p1 \o p2) = 0 /\ generate_asset_id(asset) = 0
                       THEN <<"cannot dispense asset">>
                       ELSE <<>>
             IN  p1 \o p2 \o p3
        ELSE <<"address has already a dispenser about to close, no action can be taken until it closes">>

\* validate returns (asset_id, problems); the model keeps the problems
validate(source, asset, give_quantity, escrow_quantity, mainchainrate, status, open_address, oracle_address) ==
    IF asset = BTC THEN <<"cannot dispense BTC">>
    ELSE
    LET p1 == ValidateQuantities(give_quantity, escrow_quantity, mainchainrate, status)
        available == get_balance_rows(source, asset)
        p2 == IF Len(available) = 0
              THEN <<"address doesn't have the asset">>
              ELSE IF available[1] < escrow_quantity
              THEN <<"address doesn't have enough balance">>
              ELSE IF enabled("dispenser_must_be_created_by_source")
                      /\ open_address # None /\ source # open_address
                      /\ status # STATUS_CLOSED
                      /\ Len(get_dispensers({STATUS_OPEN, STATUS_CLOSING},
                               IF status = STATUS_OPEN_EMPTY_ADDRESS
                               THEN open_address ELSE source, asset)) = 0
              THEN <<"dispenser must be created by source">>
              ELSE ValidateDispensers(p1, source, asset, give_quantity, mainchainrate,
                                      status, open_address)
        p3 == IF oracle_address # None /\ enabled("oracle_dispensers")
                 /\ ~get_oracle_last_price(oracle_address).has_price
              THEN <<"The oracle address has not broadcasted any price yet">>
              ELSE <<>>
        p4 == IF give_quantity > MAX_INT \/ escrow_quantity > MAX_INT
                 \/ mainchainrate > MAX_INT
              THEN <<"integer overflow">>
              ELSE <<>>
    IN  p1 \o p2 \o p3 \o p4
---------------------------------------------------------------------------
(* Balance Engine (ledger.events.credit / debit): outside the sources.      *)
(* debit fails with DebitError on a missing row or an insufficient balance *)

debit_ok(bal, address, asset, quantity) ==
    quantity >= 0 /\ <<address, asset>> \in DOMAIN bal /\ bal[<<address, asset>>] >= quantity

debit(bal, address, asset, quantity) ==
    [bal EXCEPT ![<<address, asset>>] = @ - quantity]

credit(bal, address, asset, quantity) ==
    IF <<address, asset>> \in DOMAIN bal
    THEN [bal EXCEPT ![<<address, asset>>] = @ + quantity]
    ELSE (<<address, asset>> :> quantity) @@ bal

---------------------------------------------------------------------------
(* dispenser.unpack *)

CouldNotUnpack ==
    [asset |-> None, give_quantity |-> 0, escrow_quantity |-> 0, mainchainrate |-> 0,
     dispenser_status |-> 0, action_address |-> None, oracle_address |-> None,
     status |-> "invalid: could not unpack"]

\* whether unpack reads an action_address after the fixed part
ReadsActionAddress(message, dispenser_status, origin_permission_extended) ==
    dispenser_status = STATUS_OPEN_EMPTY_ADDRESS
    \/ (origin_permission_extended
        /\ dispenser_status = STATUS_CLOSED
        /\ Len(message) > DISPENSER_LENGTH)

\* unpack, given protocol.enabled("dispenser_origin_permission_extended")
unpack_at(message, origin_permission_extended) ==
    IF Len(message) < DISPENSER_LENGTH THEN CouldNotUnpack      \* struct.error
    ELSE
    LET assetid == UnpackBE(Slice(message, 0, 8))
        dispenser_status == message[DISPENSER_LENGTH]
        reads == ReadsActionAddress(message, dispenser_status, origin_permission_extended)
        action_address == IF reads
                          THEN address_unpack(Slice(message, DISPENSER_LENGTH, DISPENSER_LENGTH + 21))
                          ELSE None
        read == IF reads THEN DISPENSER_LENGTH + 21 ELSE DISPENSER_LENGTH
        oracle_address == IF Len(message) > read
                          THEN address_unpack(Slice(message, read, read + 21))
                          ELSE None
    IN  IF action_address = "UnpackError" \/ oracle_address = "UnpackError"
        THEN CouldNotUnpack
        ELSE [asset |-> generate_asset_name(assetid),
              give_quantity |-> UnpackBE(Slice(message, 8, 16)),
              escrow_quantity |-> UnpackBE(Slice(message, 16, 24)),
              mainchainrate |-> UnpackBE(Slice(message, 24, 32)),
              dispenser_status |-> dispenser_status,
              action_address |-> action_address,
              oracle_address |-> oracle_address,
              status |-> "valid"]

unpack(message) == unpack_at(message, enabled("dispenser_origin_permission_extended"))

\* struct.pack(FORMAT, asset_id, give_quantity, escrow_quantity, mainchainrate, status)
PackFormat(asset_id, give_quantity, escrow_quantity, mainchainrate, status) ==
    PackBE(asset_id, 8) \o PackBE(give_quantity, 8) \o PackBE(escrow_quantity, 8)
    \o PackBE(mainchainrate, 8) \o PackBE(status, 1)

---------------------------------------------------------------------------
(* dispenser.calculate_oracle_fee.  The float arithmetic is done in exact   *)
(* rationals; satoshirate_to_fiat (helpers) is mainchainrate / 100.        *)

OracleFeeRaises(give_quantity, oracle_address) ==
    LET last == get_oracle_last_price(oracle_address)
    IN  IF ~last.has_price THEN "TypeError"                  \* None / config.UNIT
        ELSE IF last.last_price = 0 THEN "ZeroDivisionError"
        ELSE IF give_quantity = 0 THEN "ZeroDivisionError"
        ELSE "none"

calculate_oracle_fee(escrow_quantity, give_quantity, mainchainrate, oracle_address) ==
    LET last == get_oracle_last_price(oracle_address)
        remaining == escrow_quantity \div give_quantity
    IN  (mainchainrate * remaining * last.last_fee) \div (100 * last.last_price)

\* the oracle-fee test of parse (open and refill alike)
OracleFeeStatus(tx, escrow_quantity, give_quantity, mainchainrate, oracle_address) ==
    IF oracle_address # None /\ enabled("oracle_dispensers")
    THEN LET oracle_fee == calculate_oracle_fee(escrow_quantity, give_quantity,
                                                mainchainrate, oracle_address)
         IN  IF oracle_fee >= DEFAULT_REGULAR_DUST_SIZE
                /\ (tx.destination # oracle_address \/ tx.btc_amount < oracle_fee)
             THEN "invalid: insufficient or non-existent oracle fee"
             ELSE "valid"
    ELSE "valid"

OracleFeeException(give_quantity, oracle_address) ==
    IF oracle_address # None /\ enabled("oracle_dispensers")
    THEN OracleFeeRaises(give_quantity, oracle_address)
    ELSE "none"
---------------------------------------------------------------------------
(* dispenser.parse.  The outcome of a parse is a record of the tables it   *)
(* leaves, the status it ends with, the validation problems joined into    *)
(* that status, and the exception that escaped it ("none" if none did).    *)

Outcome(bal, disp, refills, cache, status) ==
    [balances |-> bal, dispensers |-> disp, dispenser_refills |-> refills,
     dispensable |-> cache, status |-> status, problems |-> <<>>, raised |-> "none",
     events |-> <<>>]

\* the outcome r with the balance events journaled on the way to it
Journaled(events, r) == [r EXCEPT !.events = events]

\* the event ledger.events.debit or credit journals
BalanceEvent(event, address, asset, quantity) ==
    [event |-> event, address |-> address, asset |-> asset, quantity |-> quantity]

NoChange(status) == Outcome(balances, dispensers, dispenser_refills, dispensable, status)

Invalid(problems) == [NoChange("invalid: problems") EXCEPT !.problems = problems]

Raise(exception) == [NoChange("raised") EXCEPT !.raised = exception]

\* is_empty_address: no asset of the address has a positive balance
IsEmptyAddress(action_address) ==
    \A asset_name \in get_address_assets(action_address) :
        ~(get_balance(action_address, asset_name) > 0)

\* variant: the credit of the address is journaled before the debit of the source
ThreeLegEventsCreditFirst(source, action_address, asset, escrow_quantity) ==
    <<BalanceEvent("CREDIT", action_address, asset, escrow_quantity),
      BalanceEvent("DEBIT", source, asset, escrow_quantity),
      BalanceEvent("DEBIT", action_address, asset, escrow_quantity)>>

\* the balance events of an empty-address open (lines 449-475)
ThreeLegEvents(source, action_address, asset, escrow_quantity) ==
    <<BalanceEvent("DEBIT", source, asset, escrow_quantity),
      BalanceEvent("CREDIT", action_address, asset, escrow_quantity),
      BalanceEvent("DEBIT", action_address, asset, escrow_quantity)>>

\* variant: the escrow is taken from the source a second time
ThreeLegMoveSourceTwice(bal, source, action_address, asset, escrow_quantity) ==
    LET b1 == debit(bal, source, asset, escrow_quantity)
        b2 == credit(b1, action_address, asset, escrow_quantity)
    IN  debit(b2, source, asset, escrow_quantity)

\* the three balance legs of an empty-address open (lines 449-475)
ThreeLegMove(bal, source, action_address, asset, escrow_quantity) ==
    LET b1 == debit(bal, source, asset, escrow_quantity)
        b2 == credit(b1, action_address, asset, escrow_quantity)
    IN  debit(b2, action_address, asset, escrow_quantity)

\* variant: a new dispenser that holds one give_quantity only
NewDispenserOneUnit(tx, u, action_address) ==
    [tx_index |-> tx.tx_index,
     tx_hash |-> tx.tx_hash,
     source |-> action_address,
     asset |-> u.asset,
     give_quantity |-> u.give_quantity,
     escrow_quantity |-> u.escrow_quantity,
     satoshirate |-> u.mainchainrate,
     status |-> STATUS_OPEN,
     give_remaining |-> u.give_quantity,
     oracle_address |-> u.oracle_address,
     origin |-> tx.source,
     dispense_count |-> 0,
     close_block_index |-> 0,
     last_status_tx_hash |-> 0,
     last_status_tx_source |-> None]

\* bindings of the OPEN_DISPENSER record
NewDispenser(tx, u, action_address) ==
    [tx_index |-> tx.tx_index,
     tx_hash |-> tx.tx_hash,
     source |-> action_address,
     asset |-> u.asset,
     give_quantity |-> u.give_quantity,
     escrow_quantity |-> u.escrow_quantity,
     satoshirate |-> u.mainchainrate,
     status |-> STATUS_OPEN,
     give_remaining |-> u.escrow_quantity,
     oracle_address |-> u.oracle_address,
     origin |-> tx.source,
     dispense_count |-> 0,
     close_block_index |-> 0,
     last_status_tx_hash |-> 0,
     last_status_tx_source |-> None]

\* variant: an open always inserts a row
MayOpenNewAlways(existing) == TRUE

\* whether an open may insert a row: no Open dispenser at (action_address, asset)
MayOpenNew(existing) == Len(existing) = 0

\* variant: the address of a new dispenser is not added to the DispensableCache
ParseOpenNewUncached(tx, u, action_address) ==
    IF OracleFeeException(u.give_quantity, u.oracle_address) # "none"
    THEN Raise(OracleFeeException(u.give_quantity, u.oracle_address))
    ELSE IF OracleFeeStatus(tx, u.escrow_quantity, u.give_quantity, u.mainchainrate,
                            u.oracle_address) # "valid"
    THEN NoChange("invalid: insufficient or non-existent oracle fee")
    ELSE IF u.dispenser_status = STATUS_OPEN_EMPTY_ADDRESS /\ ~IsEmptyAddress(action_address)
    THEN NoChange("invalid: address not empty")
    ELSE IF ~debit_ok(balances, tx.source, u.asset, u.escrow_quantity)
    THEN NoChange("invalid: insufficient funds")
    ELSE Journaled(
            IF u.dispenser_status = STATUS_OPEN_EMPTY_ADDRESS
            THEN ThreeLegEvents(tx.source, action_address, u.asset, u.escrow_quantity)
            ELSE <<BalanceEvent("DEBIT", tx.source, u.asset, u.escrow_quantity)>>,
         Outcome(
            IF u.dispenser_status = STATUS_OPEN_EMPTY_ADDRESS
            THEN ThreeLegMove(balances, tx.source, action_address, u.asset, u.escrow_quantity)
            ELSE debit(balances, tx.source, u.asset, u.escrow_quantity),
            Append(dispensers, NewDispenser(tx, u, action_address)),
            dispenser_refills,
            dispensable,
            "valid"))

\* len(existing) == 0: create a new dispenser
ParseOpenNew(tx, u, action_address) ==
    IF OracleFeeException(u.give_quantity, u.oracle_address) # "none"
    THEN Raise(OracleFeeException(u.give_quantity, u.oracle_address))
    ELSE IF OracleFeeStatus(tx, u.escrow_quantity, u.give_quantity, u.mainchainrate,
                            u.oracle_address) # "valid"
    THEN NoChange("invalid: insufficient or non-existent oracle fee")
    ELSE IF u.dispenser_status = STATUS_OPEN_EMPTY_ADDRESS /\ ~IsEmptyAddress(action_address)
    THEN NoChange("invalid: address not empty")
    ELSE IF ~debit_ok(balances, tx.source, u.asset, u.escrow_quantity)
    THEN NoChange("invalid: insufficient funds")                  \* DebitError
    ELSE Journaled(
            IF u.dispenser_status = STATUS_OPEN_EMPTY_ADDRESS
            THEN ThreeLegEvents(tx.source, action_address, u.asset, u.escrow_quantity)
            ELSE <<BalanceEvent("DEBIT", tx.source, u.asset, u.escrow_quantity)>>,
         Outcome(
            IF u.dispenser_status = STATUS_OPEN_EMPTY_ADDRESS
            THEN ThreeLegMove(balances, tx.source, action_address, u.asset, u.escrow_quantity)
            ELSE debit(balances, tx.source, u.asset, u.escrow_quantity),
            Append(dispensers, NewDispenser(tx, u, action_address)),
            dispenser_refills,
            \* if not CurrentState().parsing_mempool(): new_dispensable(action_address)
            IF parsing_mempool THEN dispensable ELSE dispensable \cup {action_address},
            "valid"))

\* variant: any address may refill the dispenser
MayRefillAnyone(tx, action_address, existing) == TRUE

\* who may refill the dispenser found at action_address
MayRefill(tx, action_address, existing) ==
    tx.source = action_address
    \/ (enabled("dispenser_origin_permission_extended") /\ tx.source = existing.origin)

\* variant: a refill that adds the escrow twice
RefillSetDataTwice(existing, escrow_quantity) ==
    [existing EXCEPT !.give_remaining = existing.give_remaining + 2 * escrow_quantity,
                     !.dispense_count = 0]

\* variant: a refill that replaces what remains
RefillSetDataReplace(existing, escrow_quantity) ==
    [existing EXCEPT !.give_remaining = escrow_quantity, !.dispense_count = 0]

\* set_data of a refill (lines 562-566)
RefillSetData(existing, escrow_quantity) ==
    [existing EXCEPT !.give_remaining = existing.give_remaining + escrow_quantity,
                     !.dispense_count = 0]

\* bindings of the REFILL_DISPENSER record
RefillRecord(tx, u, action_address, existing) ==
    [tx_index |-> tx.tx_index,
     tx_hash |-> tx.tx_hash,
     source |-> tx.source,
     destination |-> action_address,
     asset |-> u.asset,
     dispense_quantity |-> u.escrow_quantity,
     dispenser_tx_hash |-> existing.tx_hash]

\* variant: the row is refilled before the debit fails
ParseRefillBeforeDebit(tx, u, action_address, existing) ==
    IF ~MayRefill(tx, action_address, existing)
    THEN NoChange("invalid: can only refill dispenser from source or origin")
    ELSE IF OracleFeeException(u.give_quantity, u.oracle_address) # "none"
    THEN Raise(OracleFeeException(u.give_quantity, u.oracle_address))
    ELSE IF OracleFeeStatus(tx, u.escrow_quantity, u.give_quantity, u.mainchainrate,
                            u.oracle_address) # "valid"
    THEN NoChange("invalid: insufficient or non-existent oracle fee")
    ELSE IF ~debit_ok(balances, tx.source, u.asset, u.escrow_quantity)
    THEN Outcome(
            balances,
            [dispensers EXCEPT ![RowId(existing)] = RefillSetData(existing, u.escrow_quantity)],
            dispenser_refills,
            dispensable,
            "insufficient funds")
    ELSE Journaled(
            <<BalanceEvent("DEBIT", tx.source, u.asset, u.escrow_quantity)>>,
         Outcome(
            debit(balances, tx.source, u.asset, u.escrow_quantity),
            [dispensers EXCEPT ![RowId(existing)] = RefillSetData(existing, u.escrow_quantity)],
            Append(dispenser_refills, RefillRecord(tx, u, action_address, existing)),
            dispensable,
            "valid"))

\* len(existing) == 1 with the same satoshirate and give_quantity
ParseRefill(tx, u, action_address, existing) ==
    IF ~MayRefill(tx, action_address, existing)
    THEN NoChange("invalid: can only refill dispenser from source or origin")
    ELSE IF OracleFeeException(u.give_quantity, u.oracle_address) # "none"
    THEN Raise(OracleFeeException(u.give_quantity, u.oracle_address))
    ELSE IF OracleFeeStatus(tx, u.escrow_quantity, u.give_quantity, u.mainchainrate,
                            u.oracle_address) # "valid"
    THEN NoChange("invalid: insufficient or non-existent oracle fee")
    ELSE IF ~debit_ok(balances, tx.source, u.asset, u.escrow_quantity)
    THEN NoChange("insufficient funds")                           \* DebitError
    ELSE Journaled(
            <<BalanceEvent("DEBIT", tx.source, u.asset, u.escrow_quantity)>>,
         Outcome(
            debit(balances, tx.source, u.asset, u.escrow_quantity),
            [dispensers EXCEPT ![RowId(existing)] = RefillSetData(existing, u.escrow_quantity)],
            Append(dispenser_refills, RefillRecord(tx, u, action_address, existing)),
            dispensable,
            "valid"))

\* dispenser_status in [STATUS_OPEN, STATUS_OPEN_EMPTY_ADDRESS]
ParseOpen(tx, u, action_address) ==
    LET existing == get_dispensers({STATUS_OPEN}, action_address, u.asset)
    IN  IF MayOpenNew(existing)
        THEN ParseOpenNew(tx, u, action_address)
        ELSE IF Len(existing) = 1
                /\ existing[1].satoshirate = u.mainchainrate
                /\ existing[1].give_quantity = u.give_quantity
        THEN ParseRefill(tx, u, action_address, existing[1])
        ELSE NoChange("can only have one open dispenser per asset per address")

\* variant: a close that addresses the dispensers of any status
CloseExistingAnyStatus(tx, u, action_address) ==
    IF enabled("dispenser_origin_permission_extended")
       /\ action_address # None /\ action_address # tx.source
    THEN get_dispensers_origin({STATUS_OPEN, STATUS_CLOSED, STATUS_CLOSING},
                               action_address, u.asset, tx.source)
    ELSE get_dispensers({STATUS_OPEN, STATUS_CLOSED, STATUS_CLOSING}, tx.source, u.asset)

\* the Open dispensers a close message addresses
CloseExisting(tx, u, action_address) ==
    IF enabled("dispenser_origin_permission_extended")
       /\ action_address # None /\ action_address # tx.source
    THEN get_dispensers_origin({STATUS_OPEN}, action_address, u.asset, tx.source)
    ELSE get_dispensers({STATUS_OPEN}, tx.source, u.asset)

\* variant: a delayed close that sets the status Closed at once
CloseSetDataAtOnce(tx, existing, close_delay) ==
    IF close_delay = 0
    THEN [existing EXCEPT !.give_remaining = 0, !.status = STATUS_CLOSED]
    ELSE [existing EXCEPT !.status = STATUS_CLOSED,
                          !.last_status_tx_hash = tx.tx_hash,
                          !.last_status_tx_source = tx.source,
                          !.close_block_index = tx.block_index + close_delay]

\* set_data of a close (lines 646-656)
CloseSetData(tx, existing, close_delay) ==
    IF close_delay = 0
    THEN [existing EXCEPT !.give_remaining = 0, !.status = STATUS_CLOSED]
    ELSE [existing EXCEPT !.status = STATUS_CLOSING,
                          !.last_status_tx_hash = tx.tx_hash,
                          !.last_status_tx_source = tx.source,
                          !.close_block_index = tx.block_index + close_delay]

\* variant: a close without delay pays the address of the dispenser
ParseClosePaysAddress(tx, u, action_address) ==
    LET close_delay == get_value_by_block_index("dispenser_close_delay")
        existing == CloseExisting(tx, u, action_address)
    IN  IF Len(existing) = 1
        THEN Journaled(
                IF close_delay = 0
                THEN <<BalanceEvent("CREDIT", existing[1].source, u.asset, existing[1].give_remaining)>>
                ELSE <<>>,
             Outcome(
                IF close_delay = 0
                THEN credit(balances, existing[1].source, u.asset, existing[1].give_remaining)
                ELSE balances,
                [dispensers EXCEPT ![RowId(existing[1])] =
                     CloseSetData(tx, existing[1], close_delay)],
                dispenser_refills,
                dispensable,
                "valid"))
        ELSE NoChange("dispenser inexistent")

\* dispenser_status == STATUS_CLOSED
ParseClose(tx, u, action_address) ==
    LET close_delay == get_value_by_block_index("dispenser_close_delay")
        existing == CloseExisting(tx, u, action_address)
    IN  IF Len(existing) = 1
        THEN Journaled(
                IF close_delay = 0
                THEN <<BalanceEvent("CREDIT", tx.source, u.asset, existing[1].give_remaining)>>
                ELSE <<>>,
             Outcome(
                IF close_delay = 0
                THEN credit(balances, tx.source, u.asset, existing[1].give_remaining)
                ELSE balances,
                [dispensers EXCEPT ![RowId(existing[1])] =
                     CloseSetData(tx, existing[1], close_delay)],
                dispenser_refills,
                dispensable,
                "valid"))
        ELSE NoChange("dispenser inexistent")

\* parse after the message is unpacked
parse_unpacked(tx, u) ==
    LET action_address == IF u.action_address = None THEN tx.source ELSE u.action_address
    IN  IF u.status # "valid" THEN NoChange(u.status)
        ELSE
        LET problems ==
                IF enabled("dispenser_parsing_validation")
                THEN validate(tx.source, u.asset, u.give_quantity, u.escrow_quantity,
                              u.mainchainrate, u.dispenser_status,
                              IF u.dispenser_status \in {STATUS_OPEN_EMPTY_ADDRESS, STATUS_CLOSED}
                              THEN action_address ELSE None,
                              u.oracle_address)
                ELSE <<>>
        IN  IF problems # <<>> THEN Invalid(problems)
            ELSE IF u.dispenser_status \in {STATUS_OPEN, STATUS_OPEN_EMPTY_ADDRESS}
            THEN ParseOpen(tx, u, action_address)
            ELSE IF u.dispenser_status = STATUS_CLOSED
            THEN ParseClose(tx, u, action_address)
            ELSE NoChange("invalid: status must be one of OPEN or CLOSE")

parse(tx, message) == parse_unpacked(tx, unpack(message))
---------------------------------------------------------------------------
(* dispenser.close_pending *)

RECURSIVE ClosePendingFrom(_, _, _, _)
ClosePendingFrom(i, at_block, bal, disp) ==
    IF i > Len(disp) THEN [balances |-> bal, dispensers |-> disp]
    ELSE IF disp[i].status = STATUS_CLOSING /\ disp[i].close_block_index <= at_block
    THEN ClosePendingFrom(i + 1, at_block,
            credit(bal, disp[i].last_status_tx_source, disp[i].asset, disp[i].give_remaining),
            [disp EXCEPT ![i] = [@ EXCEPT !.give_remaining = 0, !.status = STATUS_CLOSED]])
    ELSE ClosePendingFrom(i + 1, at_block, bal, disp)

\* variant: the scheduled close comes one block early
close_pendingEarly(at_block, block_delay) ==
    IF block_delay > 0
    THEN ClosePendingFrom(1, at_block + 1, balances, dispensers)
    ELSE [balances |-> balances, dispensers |-> dispensers]

close_pending(at_block, block_delay) ==
    IF block_delay > 0
    THEN ClosePendingFrom(1, at_block, balances, dispensers)
    ELSE [balances |-> balances, dispensers |-> dispensers]

---------------------------------------------------------------------------
(* DispensableCache and is_dispensable *)

could_be_dispensable(source) == source \in dispensable

\* one dispenser of the scan: "true", "false" (return), or "next"
DispenserFires(next_dispenser, amount) ==
    IF next_dispenser.oracle_address # None
    THEN LET last == get_oracle_last_price(next_dispenser.oracle_address)
         IN  IF next_dispenser.satoshirate = 0 \/ (last.has_price /\ last.last_price = 0)
             THEN "false"
             \* amount >= fiatrate / last_price, fiatrate = satoshirate / 100
             ELSE IF last.has_price
                     /\ amount * last.last_price * 100 >= next_dispenser.satoshirate
             THEN "true"
             ELSE "next"
    ELSE IF amount >= next_dispenser.satoshirate THEN "true" ELSE "next"

RECURSIVE ScanDispensers(_, _)
ScanDispensers(rows, amount) ==
    IF rows = <<>> THEN FALSE
    ELSE LET r == DispenserFires(Head(rows), amount)
         IN  IF r = "true" THEN TRUE
             ELSE IF r = "false" THEN FALSE
             ELSE ScanDispensers(Tail(rows), amount)

is_dispensable(destination_address, amount) ==
    IF destination_address = None THEN FALSE
    ELSE IF ~could_be_dispensable(destination_address) THEN FALSE
    ELSE ScanDispensers(get_dispensers_at({STATUS_OPEN, STATUS_CLOSING}, destination_address),
                        amount)

---------------------------------------------------------------------------
(* The dispense message (dispense.py) is not among the sources.  From the  *)
(* specification: a payment that is dispensable takes whole give_quantity  *)
(* units out of give_remaining of the first dispenser it fires, credits    *)
(* them to the payer and counts the dispense; the status does not change.  *)

DispenseQuantity(d, amount) ==
    Min(d.give_quantity * (IF d.oracle_address = None /\ d.satoshirate > 0
                           THEN amount \div d.satoshirate ELSE 1),
        d.give_remaining)

DispenseTarget(destination, amount) ==
    LET rows == get_dispensers_at({STATUS_OPEN, STATUS_CLOSING}, destination)
        firing == SelectSeq(rows, LAMBDA d : DispenserFires(d, amount) = "true")
    IN  firing
---------------------------------------------------------------------------
(* Inputs of the dispenser state machine *)

\* (give_quantity, escrow_quantity, mainchainrate): one unit and rate with
\* two escrows, and one other unit
Quantities == {<<1, 1, 1>>, <<1, 2, 1>>, <<2, 2, 1>>}

Message(q, status, tail) ==
    PackFormat(generate_asset_id(XCP), q[1], q[2], q[3], status) \o tail

\* same-address opens and refills
OpenMessages == {Message(q, STATUS_OPEN, <<>>) : q \in Quantities}

\* opens and refills that name an address: E with two escrows, the others
\* with the smaller
OpenEmptyAddressMessages ==
    {Message(<<1, e, 1>>, STATUS_OPEN_EMPTY_ADDRESS, address_pack("E")) : e \in {1, 2}}
    \cup {Message(<<1, 1, 1>>, STATUS_OPEN_EMPTY_ADDRESS, address_pack(a)) : a \in Addresses}

CloseMessages ==
    {Message(<<0, 0, 0>>, STATUS_CLOSED, <<>>)}
    \cup {Message(<<0, 0, 0>>, STATUS_CLOSED, address_pack(a)) : a \in Addresses}

\* messages that name the oracle: an open, an open on E, a zero give_quantity
OracleMessages ==
    {Message(<<1, 2, 1>>, STATUS_OPEN, address_pack(OracleAddress)),
     Message(<<1, 2, 1>>, STATUS_OPEN_EMPTY_ADDRESS,
             address_pack("E") \o address_pack(OracleAddress)),
     Message(<<0, 1, 1>>, STATUS_OPEN, address_pack(OracleAddress))}

\* BTC, an unknown status, a truncated message
OddMessages ==
    {PackFormat(generate_asset_id(BTC), 1, 1, 1, STATUS_OPEN),
     Message(<<1, 1, 1>>, STATUS_CLOSING, <<>>),
     SubSeq(Message(<<1, 1, 1>>, STATUS_OPEN, <<>>), 1, DISPENSER_LENGTH - 1)}

DispenserMessages ==
    OpenMessages \cup OpenEmptyAddressMessages \cup CloseMessages
    \cup OracleMessages \cup OddMessages

\* unpack of every message of the model, under either setting of the flag
UnpackedMessages ==
    [m \in DispenserMessages |-> [f \in BOOLEAN |-> unpack_at(m, f)]]

\* the bitcoin output of a transaction that pays the oracle
OracleFeePaid == 100000

NoOutput == [destination |-> None, btc_amount |-> 0]

OraclePayment == [destination |-> OracleAddress, btc_amount |-> OracleFeePaid]

\* (message, bitcoin output) of a transaction: the output is read only for
\* a message that names an oracle
TransactionInputs ==
    (DispenserMessages \X {NoOutput}) \cup (OracleMessages \X {OraclePayment})

Transaction(s, d) ==
    [source |-> s, destination |-> d.destination, btc_amount |-> d.btc_amount,
     tx_index |-> tx_index, tx_hash |-> tx_index, block_index |-> block_index]

\* the protocol flags of the heights of a behaviour.  The two flags that only
\* validate reads are fixed when parse does not call validate.
FlagTables ==
    {f \in [dispenser_parsing_validation : BOOLEAN,
            dispenser_origin_permission_extended : BOOLEAN,
            dispenser_must_be_created_by_source : BOOLEAN,
            oracle_dispensers : BOOLEAN,
            dispenser_close_delay : {0, CloseDelay},
            max_refills : {0, MaxRefills}] :
        ~f.dispenser_parsing_validation =>
            (~f.dispenser_must_be_created_by_source /\ f.max_refills = 0)}

OracleFeeds ==
    {[has_price |-> FALSE, last_price |-> 0, last_fee |-> 0],
     [has_price |-> TRUE, last_price |-> 1, last_fee |-> 5000000]}

\* last block height of a behaviour: as many block boundaries as the close
\* delay in force (without a delay close_pending does nothing at a boundary)
MaxBlock == FirstBlock + get_value_by_block_index("dispenser_close_delay")

\* the address that pays the dispensers; it sends no dispenser message
Buyer == "C"

\* satoshis of a payment: the price of one unit and of two
PaymentAmounts == {1, 2}

\* a node whose API server was never started: APIServer.__init__ and the
\* module-level BLOCK_CACHE = OrderedDict()
NoAPIServer ==
    /\ api_config = [FORCE |-> FALSE, API_ONLY |-> FALSE, DISABLE_API_CACHE |-> FALSE]
    /\ last_block_parsed = 0
    /\ backend_height = <<>>
    /\ BLOCK_CACHE = <<>>
    /\ handlers = <<>>
    /\ server_ready_value = 0
    /\ api_process = [pc |-> "none"]

\* no compose call under way
NoCall == [stage |-> "none"]

\* the tables of the broadcast engine before any broadcast or bet
NoBroadcastTables ==
    /\ broadcasts = <<>>
    /\ bet_matches = <<>>
    /\ bets = <<>>
    /\ addresses = <<>>
    /\ bet_match_resolutions = <<>>

---------------------------------------------------------------------------
(* The dispenser state machine: the block parser handing dispenser          *)
(* messages, payments and block boundaries to the engine.  tx_index numbers *)
(* the dispenser messages that leave a record.                              *)

Init ==
    /\ parsing_mempool = FALSE
    /\ NoAPIServer
    /\ flags \in FlagTables
    /\ oracle \in OracleFeeds
    /\ block_index = FirstBlock
    /\ tx_index = 1
    /\ balances = (<<"A", XCP>> :> InitialBalance) @@ (<<"B", XCP>> :> 1)
    /\ dispensers = <<>>
    /\ dispenser_refills = <<>>
    /\ dispenses = <<>>
    /\ dispensable = {}
    /\ raised = "none"
    /\ call = NoCall
    /\ NoBroadcastTables

\* blocks.parse_tx: a dispenser message (ID 12) reaches dispenser.parse
ParseDispenser ==
    /\ raised = "none"
    /\ tx_index <= MaxTx
    /\ \E s \in Addresses, in \in TransactionInputs :
        \E r \in {parse_unpacked(Transaction(s, in[2]),
                    UnpackedMessages[in[1]][enabled("dispenser_origin_permission_extended")])} :
            /\ tx_index' = IF r.status = "valid" THEN tx_index + 1 ELSE tx_index
            /\ balances' = r.balances
            /\ dispensers' = r.dispensers
            /\ dispenser_refills' = r.dispenser_refills
            /\ dispensable' = r.dispensable
            /\ raised' = r.raised
    /\ UNCHANGED outside_ledger
    /\ UNCHANGED <<flags, block_index, dispenses, oracle, outside_dispenser>>

\* the dispenser d hands q units to the payer
Dispensed(d, q) ==
    /\ dispensers' = [dispensers EXCEPT ![RowId(d)] =
           [@ EXCEPT !.give_remaining = @ - q, !.dispense_count = @ + 1]]
    /\ balances' = credit(balances, Buyer, d.asset, q)
    /\ dispenses' = Append(dispenses, [dispenser_tx_hash |-> d.tx_hash, dispense_quantity |-> q])

\* a bitcoin payment that is dispensable triggers a dispense
Dispense ==
    /\ raised = "none"
    /\ Len(dispenses) < MaxDispenses
    /\ \E destination \in Addresses, amount \in PaymentAmounts :
        /\ is_dispensable(destination, amount)
        /\ \E firing \in {DispenseTarget(destination, amount)} :
            /\ firing # <<>>
            /\ \E q \in {DispenseQuantity(firing[1], amount)} :
                /\ q > 0
                /\ Dispensed(firing[1], q)
    /\ UNCHANGED outside_ledger
    /\ UNCHANGED <<flags, block_index, tx_index, dispenser_refills, dispensable, oracle,
                   raised, outside_dispenser>>

\* the block boundary: the next block starts with the scheduled closes
NewBlock ==
    /\ raised = "none"
    /\ block_index < MaxBlock
    /\ block_index' = block_index + 1
    /\ \E r \in {close_pending(block_index + 1,
                               get_value_by_block_index("dispenser_close_delay"))} :
        /\ balances' = r.balances
        /\ dispensers' = r.dispensers
    /\ UNCHANGED outside_ledger
    /\ UNCHANGED <<flags, tx_index, dispenser_refills, dispenses, dispensable, oracle, raised,
                   outside_dispenser>>

Next == ParseDispenser \/ Dispense \/ NewBlock

Spec == Init /\ [][Next]_vars

---------------------------------------------------------------------------
(* The dispenser codec: compose, then unpack of the message it emitted *)

\* whether compose appends open_address (lines 271-278)
PacksOpenAddress(source, status, open_address) ==
    \/ (status = STATUS_OPEN_EMPTY_ADDRESS /\ open_address # None)
    \/ (enabled("dispenser_origin_permission_extended")
        /\ status = STATUS_CLOSED /\ open_address # None /\ open_address # source)

\* whether compose appends oracle_address (line 279)
PacksOracleAddress(oracle_address) ==
    oracle_address # None /\ enabled("oracle_dispensers")

\* compose: [raised, data]; data is the message after the message type ID
compose(source, asset, give_quantity, escrow_quantity, mainchainrate, status, open_address, oracle_address, skip_validation) ==
    LET problems == validate(source, asset, give_quantity, escrow_quantity, mainchainrate,
                             status, open_address, oracle_address)
    IN  IF problems # <<>> /\ ~skip_validation
        THEN [raised |-> "ComposeError", data |-> <<>>]
        ELSE IF OracleFeeException(give_quantity, oracle_address) # "none"
        THEN [raised |-> OracleFeeException(give_quantity, oracle_address), data |-> <<>>]
        ELSE [raised |-> "none",
              data |-> PackFormat(generate_asset_id(asset), give_quantity, escrow_quantity,
                                  mainchainrate, status)
                       \o (IF PacksOpenAddress(source, status, open_address)
                           THEN address_pack(open_address) ELSE <<>>)
                       \o (IF PacksOracleAddress(oracle_address)
                           THEN address_pack(oracle_address) ELSE <<>>)]

\* the arguments of a compose call
ComposeInputs ==
    [source : {"A", "B"},
     asset : {XCP},
     quantities : Quantities \cup {<<0, 0, 0>>},
     status : {STATUS_OPEN, STATUS_OPEN_EMPTY_ADDRESS, STATUS_CLOSED},
     open_address : {None} \cup Addresses,
     oracle_address : {None, OracleAddress},
     skip_validation : BOOLEAN]

\* an Open dispenser of A at its own address, opened by transaction 1
OwnDispenser ==
    NewDispenser([source |-> "A", tx_index |-> 1, tx_hash |-> 1],
                 [asset |-> XCP, give_quantity |-> 1, escrow_quantity |-> 1,
                  mainchainrate |-> 1, oracle_address |-> None], "A")

\* the ledger before any dispenser, and the ledger after A opened OwnDispenser
InitCodecLedger ==
    \/ /\ balances = (<<"A", XCP>> :> InitialBalance) @@ (<<"B", XCP>> :> 1)
       /\ dispensers = <<>>
       /\ dispensable = {}
       /\ tx_index = 1
    \/ /\ balances = (<<"A", XCP>> :> InitialBalance - 1) @@ (<<"B", XCP>> :> 1)
       /\ dispensers = <<OwnDispenser>>
       /\ dispensable = {"A"}
       /\ tx_index = 2

InitDispenserCodec ==
    /\ parsing_mempool = FALSE
    /\ NoAPIServer
    /\ flags \in FlagTables
    /\ oracle \in OracleFeeds
    /\ block_index = FirstBlock
    /\ InitCodecLedger
    /\ dispenser_refills = <<>>
    /\ dispenses = <<>>
    /\ raised = "none"
    /\ call \in [stage : {"called"}, input : ComposeInputs]
    /\ NoBroadcastTables

\* api compose: dispenser.compose of the arguments
ComposeDispenser ==
    /\ call.stage = "called"
    /\ LET in == call.input
       IN  \E c \in {compose(in.source, in.asset, in.quantities[1], in.quantities[2],
                             in.quantities[3], in.status, in.open_address,
                             in.oracle_address, in.skip_validation)} :
               call' = [stage |-> IF c.raised = "none" THEN "composed" ELSE "raised",
                        input |-> in, data |-> c.data]
    /\ UNCHANGED outside_ledger
    /\ UNCHANGED <<flags, block_index, tx_index, balances, dispenser_tables, raised,
                   broadcast_tables>>

\* the parser's unpack of the composed message
UnpackDispenser ==
    /\ call.stage = "composed"
    /\ call' = [stage |-> "unpacked", input |-> call.input, data |-> call.data,
                output |-> unpack(call.data)]
    /\ UNCHANGED outside_ledger
    /\ UNCHANGED <<flags, block_index, tx_index, balances, dispenser_tables, raised,
                   broadcast_tables>>

NextDispenserCodec == ComposeDispenser \/ UnpackDispenser

SpecDispenserCodec == InitDispenserCodec /\ [][NextDispenserCodec]_vars

\* what unpack returns when it returns what compose was given
RoundTrip(in) ==
    [asset |-> in.asset,
     give_quantity |-> in.quantities[1],
     escrow_quantity |-> in.quantities[2],
     mainchainrate |-> in.quantities[3],
     dispenser_status |-> in.status,
     action_address |-> IF PacksOpenAddress(in.source, in.status, in.open_address)
                        THEN in.open_address ELSE None,
     oracle_address |-> IF PacksOracleAddress(in.oracle_address)
                        THEN in.oracle_address ELSE None,
     status |-> "valid"]

\* C9: unpack of a message compose emitted returns status "valid", the asset,
\* quantities and status compose was given, the action_address it packed (none
\* when it packed none) and the oracle_address it packed (none when none)
C9_DispenserRoundTrip ==
    call.stage = "unpacked" => call.output = RoundTrip(call.input)

---------------------------------------------------------------------------
(* Properties of the dispenser state machine *)

\* sum of the dispense_quantity of the records of a table that name tx_hash
RECURSIVE QuantityFor(_, _)
QuantityFor(records, tx_hash) ==
    IF records = <<>> THEN 0
    ELSE (IF Head(records).dispenser_tx_hash = tx_hash
          THEN Head(records).dispense_quantity ELSE 0)
         + QuantityFor(Tail(records), tx_hash)

RefilledQuantity(d) == QuantityFor(dispenser_refills, d.tx_hash)

DispensedQuantity(d) == QuantityFor(dispenses, d.tx_hash)

Rows == Range(dispensers)

\* C3, as stated: every dispenser row has give_remaining <= escrow_quantity
C3_GiveRemainingWithinEscrow ==
    \A d \in Rows : d.give_remaining <= d.escrow_quantity

\* C3, amended: every dispenser row has give_remaining <= escrow_quantity plus
\* the quantities of the refills recorded for it; a row that was never
\* refilled has give_remaining <= escrow_quantity
C3_GiveRemainingWithinEscrowAndRefills ==
    \A d \in Rows : d.give_remaining <= d.escrow_quantity + RefilledQuantity(d)

\* a refilled Open dispenser holding more than the escrow of its opening message
C3_Witness ==
    \E d \in Rows :
        /\ d.status = STATUS_OPEN
        /\ RefilledQuantity(d) > 0
        /\ d.give_remaining = d.escrow_quantity + RefilledQuantity(d)

\* C4: each (address, asset) pair has at most one dispenser row with status Open
C4_AtMostOneOpen ==
    \A i, j \in DOMAIN dispensers :
        (/\ dispensers[i].status = STATUS_OPEN
         /\ dispensers[j].status = STATUS_OPEN
         /\ dispensers[i].source = dispensers[j].source
         /\ dispensers[i].asset = dispensers[j].asset) => i = j

\* two Open dispensers of one asset at two addresses, one of them opened by
\* another address, with validation off
C4_Witness ==
    /\ \E d, e \in Rows :
        /\ d.status = STATUS_OPEN /\ e.status = STATUS_OPEN
        /\ d.asset = e.asset /\ d.source # e.source
        /\ e.origin # e.source
    /\ ~flags.dispenser_parsing_validation

\* C6: a refilled dispenser that is Open or Closing has give_remaining equal to
\* the escrow_quantity of its opening message plus the quantity of every
\* refill recorded for it minus the quantity dispensed from it
C6_RefillConsistency ==
    \A d \in Rows :
        (d.status \in {STATUS_OPEN, STATUS_CLOSING} /\ RefilledQuantity(d) > 0) =>
            d.give_remaining = d.escrow_quantity + RefilledQuantity(d) - DispensedQuantity(d)

\* a dispenser refilled after something was dispensed from it
C6_Witness ==
    \E d \in Rows :
        /\ d.status = STATUS_OPEN
        /\ RefilledQuantity(d) > 0
        /\ DispensedQuantity(d) > 0
        /\ d.dispense_count = 0

\* the address whose dispensers a close message of s addresses
CloseTarget(s, u) ==
    IF enabled("dispenser_origin_permission_extended")
       /\ u.action_address # None /\ u.action_address # s
    THEN u.action_address ELSE s

\* (address, asset) has a dispenser that was closed and none that is Open
ClosedAt(address, asset) ==
    /\ \E d \in Rows : d.source = address /\ d.asset = asset
                       /\ d.status \in {STATUS_CLOSED, STATUS_CLOSING}
    /\ \A d \in Rows : (d.source = address /\ d.asset = asset) => d.status # STATUS_OPEN

\* C7: once the dispenser of (address, asset) is closed (Closed, or Closing
\* under a close delay), a close message for that (address, asset), from any
\* source, is not valid and changes no dispenser row, no balance and no
\* other table
C7_SecondCloseChangesNothing ==
    \A s \in Addresses, m \in CloseMessages :
        LET u == UnpackedMessages[m][enabled("dispenser_origin_permission_extended")]
            r == parse_unpacked(Transaction(s, NoOutput), u)
        IN  ClosedAt(CloseTarget(s, u), u.asset) =>
                /\ r.status # "valid"
                /\ r.raised = "none"
                /\ r.balances = balances
                /\ r.dispensers = dispensers
                /\ r.dispenser_refills = dispenser_refills

\* a dispenser a close message has put in Closing, with validation off
C7_Witness ==
    /\ \E d \in Rows : d.status = STATUS_CLOSING /\ d.last_status_tx_source = d.source
                       /\ ClosedAt(d.source, d.asset)
    /\ ~flags.dispenser_parsing_validation

---------------------------------------------------------------------------
(* Broadcast: texts and bytes.  A text is a sequence of code points, a       *)
(* message a sequence of bytes.                                              *)

BROADCAST_LENGTH == 16      \* LENGTH = 4 + 8 + 4

\* str.lower() on the letters A-Z
Lower(text) == [i \in DOMAIN text |-> IF text[i] \in 65..90 THEN text[i] + 32 ELSE text[i]]

\* str.startswith
StartsWith(text, prefix) ==
    Len(text) >= Len(prefix) /\ SubSeq(text, 1, Len(prefix)) = prefix

TextLock == <<108, 111, 99, 107>>                       \* "lock"
TextOptions == <<111, 112, 116, 105, 111, 110, 115>>    \* "options"

\* text.encode("utf-8"), for code points below 0x800
RECURSIVE Utf8Encode(_)
Utf8Encode(text) ==
    IF \A i \in DOMAIN text : text[i] < 128 THEN text
    ELSE (IF Head(text) < 128 THEN <<Head(text)>>
          ELSE <<192 + (Head(text) \div 64), 128 + (Head(text) % 64)>>)
         \o Utf8Encode(Tail(text))

\* what Utf8Decode returns for bytes that are not UTF-8
UnicodeDecodeError == <<-1>>

\* bytes.decode("utf-8"): the text, or UnicodeDecodeError
RECURSIVE Utf8Decode(_)
Utf8Decode(bs) ==
    IF \A i \in DOMAIN bs : bs[i] < 128 THEN bs
    ELSE IF bs[1] < 128
    THEN LET rest == Utf8Decode(Tail(bs))
         IN  IF rest = UnicodeDecodeError THEN rest ELSE <<bs[1]>> \o rest
    ELSE IF bs[1] \in 194..223 /\ Len(bs) >= 2 /\ bs[2] \in 128..191
    THEN LET rest == Utf8Decode(Tail(Tail(bs)))
         IN  IF rest = UnicodeDecodeError THEN rest
             ELSE <<(bs[1] - 192) * 64 + (bs[2] - 128)>> \o rest
    ELSE UnicodeDecodeError

\* bytes truncated or padded with zero bytes to n bytes (struct "s" and "p")
FitBytes(bs, n) ==
    IF Len(bs) >= n THEN SubSeq(bs, 1, n) ELSE bs \o Repeat(0, n - Len(bs))

\* struct.pack("{n}p", bs): a Pascal string of n bytes in all
PackPascal(bs, n) ==
    IF n = 0 THEN <<>>
    ELSE <<Min(Min(Len(bs), n - 1), 255)>> \o FitBytes(bs, n - 1)

\* struct.unpack("{n}p", field): the bytes the length byte announces
UnpackPascal(field) ==
    IF field = <<>> THEN <<>>
    ELSE SubSeq(field, 2, 1 + Min(field[1], Len(field) - 1))

\* VarIntSerializer.serialize(n), n < 2^16
VarIntSerialize(n) ==
    IF n < 253 THEN <<n>> ELSE <<253, (n % 256), (n \div 256)>>

\* VarIntSerializer.deserialize(bs): the integer at the head of bs, -1 when
\* it raises SerializationTruncationError; a four- or eight-byte integer is
\* a length beyond any message
VarIntDeserialize(bs) ==
    IF bs = <<>> THEN -1
    ELSE IF bs[1] < 253 THEN bs[1]
    ELSE IF bs[1] = 253 THEN (IF Len(bs) >= 3 THEN bs[2] + 256 * bs[3] ELSE -1)
    ELSE IF bs[1] = 254 THEN (IF Len(bs) >= 5 THEN 2 ^ 30 ELSE -1)
    ELSE (IF Len(bs) >= 9 THEN 2 ^ 30 ELSE -1)

\* a value is a binary fraction, kept as the integer number of its ticks of
\* 1 / ValueDen; the doubles of the model are exact
ValueDen == 2 ^ 9

\* struct.pack(">d", value): eight bytes, one-to-one on the values of the model
PackDouble(value) ==
    <<IF value < 0 THEN 192 ELSE 64>> \o PackBE(IF value < 0 THEN -value ELSE value, 7)

\* struct.unpack(">d", bs)
UnpackDouble(bs) ==
    IF bs[1] >= 128 THEN -UnpackBE(Tail(bs)) ELSE UnpackBE(Tail(bs))

---------------------------------------------------------------------------
(* Broadcast: the legacy layout and the CBOR array.  A field that may be    *)
(* None is <<>> for None and <<x>> for the value x.                         *)

Some(x) == <<x>>

\* struct.pack(FORMAT, timestamp, value, fee_fraction_int)
PackHeader(timestamp, value, fee_fraction_int) ==
    PackBE(timestamp, 4) \o PackDouble(value) \o PackBE(fee_fraction_int, 4)

\* the legacy message body compose builds (lines 167-179)
PackLegacy(timestamp, value, fee_fraction_int, text) ==
    IF enabled("broadcast_pack_text")
    THEN PackHeader(timestamp, value, fee_fraction_int)
         \o VarIntSerialize(Len(Utf8Encode(text))) \o Utf8Encode(text)
    ELSE PackHeader(timestamp, value, fee_fraction_int)
         \o (IF Len(text) <= 52
             THEN PackPascal(Utf8Encode(text), Len(text) + 1)
             ELSE FitBytes(Utf8Encode(text), Len(text)))

\* what a loader returns, or the exception it raises
Loaded(timestamp, value, fee_fraction_int, mime_type, text) ==
    [raised |-> "none", timestamp |-> timestamp, value |-> value,
     fee_fraction_int |-> fee_fraction_int, mime_type |-> mime_type, text |-> text]

LoadRaises(exception) ==
    [raised |-> exception, timestamp |-> <<>>, value |-> <<>>, fee_fraction_int |-> <<>>,
     mime_type |-> <<>>, text |-> <<>>]

MimeTextPlain == <<116, 101, 120, 116, 47, 112, 108, 97, 105, 110>>     \* "text/plain"

\* text.decode("utf-8"), "" on UnicodeDecodeError (lines 211-214)
DecodeText(bs) == IF Utf8Decode(bs) = UnicodeDecodeError THEN <<>> ELSE Utf8Decode(bs)

\* the text bytes of a pack_text message (lines 196-203), or the exception
PackTextBytes(rawtext) ==
    LET textlen == VarIntDeserialize(rawtext)
    IN  IF textlen < 0 THEN [raised |-> "SerializationTruncationError", text |-> <<>>]
        ELSE LET text == IF textlen = 0 THEN <<>>
                         ELSE SubSeq(rawtext, Len(rawtext) - Min(textlen, Len(rawtext)) + 1,
                                     Len(rawtext))
             IN  IF Len(text) = textlen THEN [raised |-> "none", text |-> text]
                 ELSE [raised |-> "AssertionError", text |-> <<>>]

load_data_legacy(message) ==
    IF Len(message) < BROADCAST_LENGTH THEN LoadRaises("struct.error")
    ELSE LET timestamp == UnpackBE(Slice(message, 0, 4))
             value == UnpackDouble(Slice(message, 4, 12))
             fee_fraction_int == UnpackBE(Slice(message, 12, 16))
             rest == Slice(message, BROADCAST_LENGTH, Len(message))
         IN  IF enabled("broadcast_pack_text")
             THEN IF PackTextBytes(rest).raised # "none"
                  THEN LoadRaises(PackTextBytes(rest).raised)
                  ELSE Loaded(Some(timestamp), Some(value), Some(fee_fraction_int),
                              MimeTextPlain, Some(DecodeText(PackTextBytes(rest).text)))
             ELSE Loaded(Some(timestamp), Some(value), Some(fee_fraction_int), MimeTextPlain,
                         Some(DecodeText(IF Len(rest) <= 52 THEN UnpackPascal(rest) ELSE rest)))

---------------------------------------------------------------------------
(* Broadcast: the CBOR items cbor2 writes and reads for the array of a      *)
(* broadcast: integers, doubles, byte and text strings, null, arrays       *)

\* the head of an item: major type and argument
CborHead(major, n) ==
    IF n < 24 THEN <<major * 32 + n>>
    ELSE IF n < 256 THEN <<major * 32 + 24, n>>
    ELSE IF n < 65536 THEN <<major * 32 + 25>> \o PackBE(n, 2)
    ELSE <<major * 32 + 26>> \o PackBE(n, 4)

CborInt(n) == IF n >= 0 THEN CborHead(0, n) ELSE CborHead(1, -1 - n)
CborDouble(value) == <<251>> \o PackDouble(value)
CborBytes(bs) == CborHead(2, Len(bs)) \o bs
CborText(text) == CborHead(3, Len(Utf8Encode(text))) \o Utf8Encode(text)
CborNull == <<246>>

\* cbor2.dumps([timestamp, value, fee_fraction_int, mime_type, content])
CborArray5(timestamp, value, fee_fraction_int, mime_type, content) ==
    CborHead(4, 5) \o timestamp \o value \o fee_fraction_int \o mime_type \o content

\* the argument of the head at the start of bs: [ok, n, size of the head]
CborArgument(bs) ==
    LET info == bs[1] % 32
    IN  IF info < 24 THEN [ok |-> TRUE, n |-> info, size |-> 1]
        ELSE IF info = 24 /\ Len(bs) >= 2 THEN [ok |-> TRUE, n |-> bs[2], size |-> 2]
        ELSE IF info = 25 /\ Len(bs) >= 3
        THEN [ok |-> TRUE, n |-> UnpackBE(SubSeq(bs, 2, 3)), size |-> 3]
        ELSE IF info = 26 /\ Len(bs) >= 5 /\ bs[2] < 128
        THEN [ok |-> TRUE, n |-> UnpackBE(SubSeq(bs, 2, 5)), size |-> 5]
        ELSE [ok |-> FALSE, n |-> 0, size |-> 0]

CborFail == [ok |-> FALSE, item |-> [t |-> "none"], rest |-> <<>>]

\* the item at the start of bs and the bytes after it
RECURSIVE CborItem(_)
RECURSIVE CborItems(_, _)
CborItem(bs) ==
    IF bs = <<>> THEN CborFail
    ELSE LET major == bs[1] \div 32
             a == CborArgument(bs)
             body == SubSeq(bs, a.size + 1, Len(bs))
         IN  IF bs[1] = 246
             THEN [ok |-> TRUE, item |-> [t |-> "none"], rest |-> Tail(bs)]
             ELSE IF bs[1] = 251
             THEN IF Len(bs) >= 9
                  THEN [ok |-> TRUE, item |-> [t |-> "float", v |-> UnpackDouble(SubSeq(bs, 2, 9))],
                        rest |-> SubSeq(bs, 10, Len(bs))]
                  ELSE CborFail
             ELSE IF major > 4 \/ ~a.ok THEN CborFail
             ELSE IF major = 0
             THEN [ok |-> TRUE, item |-> [t |-> "int", v |-> a.n], rest |-> body]
             ELSE IF major = 1
             THEN [ok |-> TRUE, item |-> [t |-> "int", v |-> -1 - a.n], rest |-> body]
             ELSE IF major \in {2, 3}
             THEN IF Len(body) >= a.n
                  THEN [ok |-> TRUE,
                        item |-> [t |-> IF major = 2 THEN "bytes" ELSE "text",
                                  v |-> SubSeq(body, 1, a.n)],
                        rest |-> SubSeq(body, a.n + 1, Len(body))]
                  ELSE CborFail
             ELSE LET items == CborItems(body, a.n)
                  IN  IF items.ok
                      THEN [ok |-> TRUE, item |-> [t |-> "array", v |-> items.items],
                            rest |-> items.rest]
                      ELSE CborFail

\* n items in a row
CborItems(bs, n) ==
    IF n = 0 THEN [ok |-> TRUE, items |-> <<>>, rest |-> bs]
    ELSE LET first == CborItem(bs)
         IN  IF ~first.ok THEN [ok |-> FALSE, items |-> <<>>, rest |-> <<>>]
             ELSE LET others == CborItems(first.rest, n - 1)
                  IN  [ok |-> others.ok, items |-> <<first.item>> \o others.items,
                       rest |-> others.rest]

---------------------------------------------------------------------------
(* Broadcast: load_cbor, unpack, validate, compose *)

\* an item read as an integer field: <<n>>, or <<>> for None and for anything
\* that is no number (a double is read as its integer part; the messages of
\* the model carry none in an integer field)
IntegerField(item) ==
    IF item.t = "int" THEN <<item.v>>
    ELSE IF item.t = "float" THEN <<item.v \div ValueDen>>
    ELSE <<>>

\* an item read as the value, in ticks
ValueField(item) ==
    IF item.t = "int" THEN <<item.v * ValueDen>>
    ELSE IF item.t = "float" THEN <<item.v>>
    ELSE <<>>

\* load_cbor: cbor2.loads, the five fields, mime_type or "text/plain",
\* helpers.bytes_to_content
load_cbor(message) ==
    LET loaded == CborItem(message)
    IN  IF ~loaded.ok \/ loaded.item.t # "array" THEN LoadRaises("Exception")
        ELSE LET a == loaded.item.v
             IN  IF Len(a) # 5 \/ a[4].t \notin {"text", "none"} \/ a[5].t # "bytes"
                 THEN LoadRaises("Exception")
                 ELSE IF Utf8Decode(a[5].v) = UnicodeDecodeError
                         \/ (a[4].t = "text" /\ Utf8Decode(a[4].v) = UnicodeDecodeError)
                 THEN LoadRaises("Exception")
                 ELSE Loaded(IntegerField(a[1]), ValueField(a[2]), IntegerField(a[3]),
                             IF a[4].t = "none" \/ a[4].v = <<>>
                             THEN MimeTextPlain ELSE Utf8Decode(a[4].v),
                             Some(Utf8Decode(a[5].v)))

\* what unpack returns: the fields and the status, and the exception that
\* escapes it ("none" when it returns)
Unpacked(l, status) ==
    [timestamp |-> l.timestamp, value |-> l.value, fee_fraction_int |-> l.fee_fraction_int,
     mime_type |-> l.mime_type, text |-> l.text, status |-> status, raised |-> "none"]

broadcast_unpack(message) ==
    LET cbor == IF enabled("taproot_support") THEN load_cbor(message) ELSE LoadRaises("Exception")
        l == IF cbor.raised = "none" THEN cbor ELSE load_data_legacy(message)
    IN  IF l.raised = "none" THEN Unpacked(l, "valid")
        ELSE IF l.raised = "struct.error"
        THEN Unpacked(Loaded(Some(0), <<>>, Some(0), <<>>, <<>>), "invalid: could not unpack")
        ELSE IF l.raised = "AssertionError"
        THEN Unpacked(Loaded(Some(0), <<>>, Some(0), <<>>, <<>>), "invalid: could not unpack text")
        ELSE [Unpacked(l, "raised") EXCEPT !.raised = l.raised]

---------------------------------------------------------------------------
(* Broadcast: options, validate, compose *)

\* config.ADDRESS_OPTION_MAX_VALUE (ADDRESS_OPTION_REQUIRE_MEMO is the one option)
ADDRESS_OPTION_MAX_VALUE == 1

\* helpers.active_options(config, options): options & config == options
RECURSIVE active_options(_, _)
active_options(cfg, options) ==
    IF options = 0 THEN TRUE
    ELSE (options % 2 <= cfg % 2) /\ active_options(cfg \div 2, options \div 2)

\* the value of a string of decimal digits, -1 when it is empty or no such string
RECURSIVE DigitsValue(_)
DigitsValue(text) ==
    IF text = <<>> THEN -1
    ELSE IF text[Len(text)] \notin 48..57 THEN -1
    ELSE IF Len(text) = 1 THEN text[1] - 48
    ELSE LET front == DigitsValue(SubSeq(text, 1, Len(text) - 1))
         IN  IF front < 0 THEN -1 ELSE front * 10 + (text[Len(text)] - 48)

\* int(string) on decimal digits with an optional minus sign
ParseInt(text) ==
    LET negative == text # <<>> /\ text[1] = 45
        digits == DigitsValue(IF negative THEN Tail(text) ELSE text)
    IN  [ok |-> digits >= 0, n |-> IF negative THEN -digits ELSE digits]

\* the positions of the spaces of a text
Spaces(text) == {i \in DOMAIN text : text[i] = 32}

\* parse_options_from_string: [kind |-> "false"], [kind |-> "options", n |-> ..]
\* or [kind |-> "OptionsError"] when int() fails
parse_options_from_string(string) ==
    IF Cardinality(Spaces(string)) # 1 THEN [kind |-> "false", n |-> 0]
    ELSE LET space == CHOOSE i \in Spaces(string) : TRUE
             options == ParseInt(SubSeq(string, space + 1, Len(string)))
         IN  IF options.ok THEN [kind |-> "options", n |-> options.n]
             ELSE [kind |-> "OptionsError", n |-> 0]

\* validate_address_options: the message of the OptionsError, "" when none
validate_address_options(options) ==
    IF options > MAX_INT \/ options < 0 THEN "options integer overflow"
    ELSE IF options > ADDRESS_OPTION_MAX_VALUE THEN "options out of range"
    ELSE IF ~active_options(ADDRESS_OPTION_MAX_VALUE, options) THEN "options not possible"
    ELSE ""

\* the problems of the options text (lines 107-114)
OptionsProblems(text) ==
    LET options == parse_options_from_string(text)
    IN  IF options.kind = "OptionsError" THEN <<"options not an integer">>
        ELSE IF options.kind = "options" /\ validate_address_options(options.n) # ""
        THEN <<validate_address_options(options.n)>>
        ELSE <<>>

\* text and text.lower().startswith("options")
IsOptionsText(text) == text # <<>> /\ StartsWith(Lower(text), TextOptions)

\* helpers.check_content(mime_type, text): the model knows text/plain only
check_content(mime_type, text) ==
    IF mime_type = <<>> \/ mime_type = MimeTextPlain THEN <<>> ELSE <<"Invalid mime type">>

\* ledger.other.get_broadcasts_by_source(db, source, "valid", order_by="ASC")
get_broadcasts_by_source(source) ==
    SelectSeq(broadcasts, LAMBDA b : b.source = source /\ b.status = "valid")

\* value > n for a value in ticks and an integer n
ValueAbove(value, n) ==
    value \div ValueDen > n \/ (value \div ValueDen = n /\ value % ValueDen > 0)

\* a sequence when the condition holds, the empty sequence otherwise
When(condition, problems) == IF condition THEN problems ELSE <<>>

\* variant: the lock of the feed's last valid broadcast is not looked at
FeedProblemsLockIgnored(source, timestamp) ==
    LET valid == get_broadcasts_by_source(source)
    IN  IF valid = <<>> THEN <<>>
        ELSE When(timestamp <= valid[Len(valid)].timestamp,
                  <<"feed timestamps not monotonically increasing">>)

\* variant: a timestamp equal to the feed's last is accepted
FeedProblemsEqualAccepted(source, timestamp) ==
    LET valid == get_broadcasts_by_source(source)
    IN  IF valid = <<>> THEN <<>>
        ELSE IF valid[Len(valid)].locked THEN <<"locked feed">>
        ELSE When(timestamp < valid[Len(valid)].timestamp,
                  <<"feed timestamps not monotonically increasing">>)

\* the last valid broadcast of the feed decides (lines 93-100)
FeedProblems(source, timestamp) ==
    LET valid == get_broadcasts_by_source(source)
    IN  IF valid = <<>> THEN <<>>
        ELSE IF valid[Len(valid)].locked THEN <<"locked feed">>
        ELSE When(timestamp <= valid[Len(valid)].timestamp,
                  <<"feed timestamps not monotonically increasing">>)

broadcast_validate(source, timestamp, value, fee_fraction_int, text, mime_type) ==
    When(timestamp > MAX_INT \/ ValueAbove(value, MAX_INT) \/ fee_fraction_int > MAX_INT,
         <<"integer overflow">>)
    \o (IF enabled("max_fee_fraction")
        THEN When(fee_fraction_int >= UNIT, <<"fee fraction greater than or equal to 1">>)
        ELSE When(fee_fraction_int \div 2 > 2147483647,
                  <<"fee fraction greater than 42.94967295">>))
    \o When(timestamp < 0, <<"negative timestamp">>)
    \o When(source = "", <<"null source address">>)
    \o FeedProblems(source, timestamp)
    \o When(~enabled("no_zero_expiration") /\ Len(text) > 52, <<"text too long">>)
    \o When(enabled("options_require_memo") /\ IsOptionsText(text), OptionsProblems(text))
    \o When(enabled("taproot_support"), check_content(mime_type, text))

\* the timestamp compose validates: the one after the feed's last when 0
broadcast_timestamp(source, timestamp) ==
    LET valid == get_broadcasts_by_source(source)
    IN  IF timestamp = 0 /\ valid # <<>> THEN valid[Len(valid)].timestamp + 1 ELSE timestamp

\* the bytes after the message type id (lines 153-179)
ComposeData(source, timestamp, value, fee_fraction_int, text, mime_type) ==
    IF enabled("taproot_support")
    THEN CborArray5(CborInt(broadcast_timestamp(source, timestamp)), CborDouble(value),
                    CborInt(fee_fraction_int), CborText(mime_type), CborBytes(Utf8Encode(text)))
    ELSE PackLegacy(timestamp, value, fee_fraction_int, text)

\* compose: [raised, data], the data without the message type id
broadcast_compose(source, timestamp, value, fee_fraction_int, text, mime_type, skip_validation) ==
    LET problems == broadcast_validate(source, broadcast_timestamp(source, timestamp), value,
                                       fee_fraction_int, text, mime_type)
    IN  IF problems # <<>> /\ ~skip_validation
        THEN [raised |-> "ComposeError", problems |-> problems, data |-> <<>>]
        ELSE [raised |-> "none", problems |-> problems,
              data |-> ComposeData(source, timestamp, value, fee_fraction_int, text, mime_type)]

---------------------------------------------------------------------------
(* Broadcast codec: compose, then the parser's unpack of what it emitted *)

\* a row of the broadcasts table (bindings, lines 276-288)
BroadcastRow(tx, timestamp, value, fee_fraction_int, text, locked, status, problems, mime_type) ==
    [tx_index |-> tx.tx_index, source |-> tx.source, timestamp |-> timestamp, value |-> value,
     fee_fraction_int |-> fee_fraction_int, text |-> text, locked |-> locked,
     status |-> status, problems |-> problems, mime_type |-> mime_type]

\* the feeds
Feeds == {"F", "G"}

\* the transaction index of the first broadcast: the bets come before it
FirstBroadcastTx == 9

\* the longest text composed; CBOR heads change size at 24 and at 256 bytes
MaxTextLen == 256

TextLengths == {0, 1, 23, 24, 51, 52, 53, 255, MaxTextLen}

\* texts of letters of every length above, "lock", "options 1", an e acute
Texts ==
    {Repeat(97, n) : n \in TextLengths}
    \cup {TextLock, TextOptions \o <<32, 49>>, <<233>>, <<233, 97>>}

\* the flags that validate, compose and unpack read; the two that only the
\* settlement reads are off
BroadcastCodecFlags ==
    [taproot_support : BOOLEAN, broadcast_pack_text : BOOLEAN, no_zero_expiration : BOOLEAN,
     max_fee_fraction : BOOLEAN, options_require_memo : BOOLEAN,
     broadcast_invalid_check : {FALSE}, inmutable_fee_fraction : {FALSE}]

BroadcastComposeInputs ==
    [source : {"F"}, timestamp : {0, 1, 2}, value : {0, ValueDen + 1},
     fee_fraction_int : {0, UNIT}, text : Texts, mime_type : {<<>>},
     skip_validation : {FALSE}]

\* the first valid broadcast of feed F
FirstBroadcast ==
    BroadcastRow([tx_index |-> FirstBroadcastTx, source |-> "F"], 1, Some(ValueDen + 1), Some(0), Some(<<>>),
                 FALSE, "valid", <<>>, MimeTextPlain)

\* no dispenser, no balance
NoDispenserTables ==
    /\ oracle = [has_price |-> FALSE, last_price |-> 0, last_fee |-> 0]
    /\ dispensers = <<>>
    /\ dispenser_refills = <<>>
    /\ dispenses = <<>>
    /\ dispensable = {}

InitBroadcastCodec ==
    /\ parsing_mempool = FALSE
    /\ NoAPIServer
    /\ flags \in BroadcastCodecFlags
    /\ block_index = FirstBlock
    /\ NoDispenserTables
    /\ balances = <<>>
    /\ \/ broadcasts = <<>> /\ tx_index = FirstBroadcastTx
       \/ broadcasts = <<FirstBroadcast>> /\ tx_index = FirstBroadcastTx + 1
    /\ bet_matches = <<>>
    /\ bets = <<>>
    /\ addresses = <<>>
    /\ bet_match_resolutions = <<>>
    /\ raised = "none"
    /\ call \in [stage : {"broadcast called"}, input : BroadcastComposeInputs]

\* api compose: broadcast.compose of the arguments
ComposeBroadcast ==
    /\ call.stage = "broadcast called"
    /\ LET in == call.input
       IN  \E c \in {broadcast_compose(in.source, in.timestamp, in.value, in.fee_fraction_int,
                                       in.text, in.mime_type, in.skip_validation)} :
               call' = [stage |-> IF c.raised = "none" THEN "broadcast composed"
                                  ELSE "broadcast refused",
                        input |-> in, data |-> c.data]
    /\ UNCHANGED outside_ledger
    /\ UNCHANGED <<flags, block_index, tx_index, balances, dispenser_tables, raised,
                   broadcast_tables>>

\* the parser's unpack of the composed message
UnpackBroadcast ==
    /\ call.stage = "broadcast composed"
    /\ call' = [stage |-> "broadcast unpacked", input |-> call.input, data |-> call.data,
                output |-> broadcast_unpack(call.data)]
    /\ UNCHANGED outside_ledger
    /\ UNCHANGED <<flags, block_index, tx_index, balances, dispenser_tables, raised,
                   broadcast_tables>>

NextBroadcastCodec == ComposeBroadcast \/ UnpackBroadcast

SpecBroadcastCodec == InitBroadcastCodec /\ [][NextBroadcastCodec]_vars

\* unpack gave back what compose was given
BroadcastRoundTrip(in, out) ==
    /\ out.raised = "none"
    /\ out.status = "valid"
    /\ out.timestamp = Some(broadcast_timestamp(in.source, in.timestamp))
    /\ out.value = Some(in.value)
    /\ out.fee_fraction_int = Some(in.fee_fraction_int)
    /\ out.text = Some(in.text)

\* C10: the unpack of the payload compose built for a broadcast that passed
\* validation has status "valid" and the timestamp, value, fee_fraction_int
\* and text compose was given, in the legacy regimes and in the CBOR regime
C10_BroadcastRoundTrip ==
    call.stage = "broadcast unpacked" => BroadcastRoundTrip(call.input, call.output)

---------------------------------------------------------------------------
(* Broadcast: settlement arithmetic.  fee_fraction, value and leverage are  *)
(* floats in the code; the model keeps them as exact fractions, which the   *)
(* floats are for values in ticks and a leverage that is 5040 times a      *)
(* power of two.                                                            *)

BET_TYPE_ID == [BullCFD |-> 0, BearCFD |-> 1, Equal |-> 2, NotEqual |-> 3]

\* the denominator of leverage (line 376)
LEVERAGE_DEN == 5040

Abs(n) == IF n < 0 THEN -n ELSE n

RECURSIVE GCD(_, _)
GCD(a, b) == IF b = 0 THEN a ELSE GCD(b, a % b)

\* round(num / den), den > 0: Python rounds halves to the even integer
RoundHalfEven(num, den) ==
    LET q == num \div den
        r == num % den
    IN  IF 2 * r < den THEN q
        ELSE IF 2 * r > den THEN q + 1
        ELSE IF q % 2 = 0 THEN q ELSE q + 1

\* int(fee_fraction_int / UNIT * total_escrow), fee_fraction_int >= 0 (lines 349-354)
Fee(fee_fraction_int, total_escrow) ==
    LET whole == fee_fraction_int \div UNIT
        part == fee_fraction_int % UNIT
        g == GCD(part, UNIT)
    IN  whole * total_escrow + ((part \div g) * total_escrow) \div (UNIT \div g)

\* (value - initial_value) * leverage * UNIT as the fraction [num, den] in
\* terms low enough for 32-bit integers
Swing(value, initial_value, leverage) ==
    LET gl == GCD(leverage, LEVERAGE_DEN)
        gu == GCD(UNIT, ValueDen)
        den0 == (LEVERAGE_DEN \div gl) * (ValueDen \div gu)
        gd == GCD(Abs(value - initial_value), den0)
        g == IF gd = 0 THEN 1 ELSE gd
    IN  [num |-> ((value - initial_value) \div g) * (leverage \div gl) * (UNIT \div gu),
         den |-> den0 \div g]

\* bear_credit and bull_credit, each rounded on its own (lines 379-382)
CfdCredits(bear_escrow, escrow_less_fee, value, initial_value, leverage) ==
    LET swing == Swing(value, initial_value, leverage)
        bear_num == bear_escrow * swing.den - swing.num
    IN  [bear_credit |-> RoundHalfEven(bear_num, swing.den),
         bull_credit |-> RoundHalfEven(escrow_less_fee * swing.den - bear_num, swing.den)]

\* ledger.events.credit rejects a negative quantity
credit_ok(quantity) == quantity >= 0

\* helpers.make_id(tx0_hash, tx1_hash)
make_id(bet_match) == <<bet_match.tx0_index, bet_match.tx1_index>>

\* the order tx1_index ASC, tx0_index ASC as one key
MatchOrder(bet_match) == bet_match.tx1_index * 1000 + bet_match.tx0_index

\* a set of bet matches in that order
RECURSIVE SortMatches(_)
SortMatches(rows) ==
    IF rows = {} THEN <<>>
    ELSE LET first == CHOOSE r \in rows : \A o \in rows : MatchOrder(r) <= MatchOrder(o)
         IN  <<first>> \o SortMatches(rows \ {first})

\* variant: the pending bet matches come back in descending order
get_pending_bet_matchesDescending(matches, feed_address) ==
    LET sorted == SortMatches({m \in Range(matches) :
                                 m.feed_address = feed_address /\ m.status = "pending"})
    IN  [k \in DOMAIN sorted |-> sorted[Len(sorted) + 1 - k]]

\* ledger.other.get_pending_bet_matches(db, feed_address, order_by=...)
get_pending_bet_matches(matches, feed_address) ==
    SortMatches({m \in Range(matches) : m.feed_address = feed_address /\ m.status = "pending"})

\* ledger.other.get_bet_by_feed(db, feed_address, status="open")
get_bet_by_feed(all_bets, feed_address) ==
    SelectSeq(all_bets, LAMBDA b : b.feed_address = feed_address /\ b.status = "open")

\* the state the settlement works on, the events the loop over the bet
\* matches journals, in the order emitted, and the exception that escaped
Ledger(bal, matches, all_bets, resolutions) ==
    [balances |-> bal, bet_matches |-> matches, bets |-> all_bets,
     bet_match_resolutions |-> resolutions, events |-> <<>>, raised |-> "none"]

\* ledger.other.update_bet_match_status
update_bet_match_status(matches, id, status) ==
    [i \in DOMAIN matches |->
        IF make_id(matches[i]) = id THEN [matches[i] EXCEPT !.status = status] ELSE matches[i]]

\* credits in the order given, CreditError at the first negative quantity
RECURSIVE Credits(_, _)
Credits(bal, moves) ==
    IF moves = <<>> THEN [raised |-> "none", balances |-> bal]
    ELSE IF ~credit_ok(Head(moves)[2]) THEN [raised |-> "CreditError", balances |-> bal]
    ELSE Credits(credit(bal, Head(moves)[1], XCP, Head(moves)[2]), Tail(moves))

---------------------------------------------------------------------------
(* Broadcast: the bet matches of a feed (parse, lines 335-571) *)

\* a row of bet_match_resolutions; a field that is None is <<>>
Resolution(tx, bet_match, settled, bull_credit, bear_credit, winner, escrow_less_fee, fee) ==
    [bet_match_id |-> make_id(bet_match),
     bet_match_type_id |-> bet_match.tx0_bet_type + bet_match.tx1_bet_type,
     block_index |-> tx.block_index, settled |-> settled, bull_credit |-> bull_credit,
     bear_credit |-> bear_credit, winner |-> winner, escrow_less_fee |-> escrow_less_fee,
     fee |-> fee]

\* what the broadcast decides for one bet match: the new status ("" when the
\* match stays pending), the credits in the order issued, the resolution row
Decision(status, moves, resolution) ==
    [status |-> status, moves |-> moves, resolution |-> resolution]

Undecided == Decision("", <<>>, <<>>)

\* variant: a contract for difference is settled before its deadline too
DecideCfdAnyTime(tx, timestamp, value, bet_match, escrow_less_fee, fee) ==
    LET tx0_is_bull == bet_match.tx0_bet_type < bet_match.tx1_bet_type
        bull_address == IF tx0_is_bull THEN bet_match.tx0_address ELSE bet_match.tx1_address
        bear_address == IF tx0_is_bull THEN bet_match.tx1_address ELSE bet_match.tx0_address
        bear_escrow == IF tx0_is_bull THEN bet_match.backward_quantity
                       ELSE bet_match.forward_quantity
        credits == CfdCredits(bear_escrow, escrow_less_fee, value, bet_match.initial_value,
                              bet_match.leverage)
        feed_fee == <<bet_match.feed_address, fee>>
    IN  IF credits.bull_credit >= escrow_less_fee
        THEN Decision("settled: liquidated for bull",
                      <<<<bull_address, escrow_less_fee>>, feed_fee>>,
                      Resolution(tx, bet_match, Some(FALSE), Some(escrow_less_fee), Some(0),
                                 "None", <<>>, fee))
        ELSE IF credits.bull_credit <= 0
        THEN Decision("settled: liquidated for bear",
                      <<<<bear_address, escrow_less_fee>>, feed_fee>>,
                      Resolution(tx, bet_match, Some(FALSE), Some(0), Some(escrow_less_fee),
                                 "None", <<>>, fee))
        ELSE IF timestamp >= 0
        THEN Decision("settled",
                      <<<<bull_address, credits.bull_credit>>,
                        <<bear_address, credits.bear_credit>>, feed_fee>>,
                      Resolution(tx, bet_match, Some(TRUE), Some(credits.bull_credit),
                                 Some(credits.bear_credit), "None", <<>>, fee))
        ELSE Undecided

\* contract for difference (lines 365-490)
DecideCfd(tx, timestamp, value, bet_match, escrow_less_fee, fee) ==
    LET tx0_is_bull == bet_match.tx0_bet_type < bet_match.tx1_bet_type
        bull_address == IF tx0_is_bull THEN bet_match.tx0_address ELSE bet_match.tx1_address
        bear_address == IF tx0_is_bull THEN bet_match.tx1_address ELSE bet_match.tx0_address
        bear_escrow == IF tx0_is_bull THEN bet_match.backward_quantity
                       ELSE bet_match.forward_quantity
        credits == CfdCredits(bear_escrow, escrow_less_fee, value, bet_match.initial_value,
                              bet_match.leverage)
        feed_fee == <<bet_match.feed_address, fee>>
    IN  IF credits.bull_credit >= escrow_less_fee
        THEN Decision("settled: liquidated for bull",
                      <<<<bull_address, escrow_less_fee>>, feed_fee>>,
                      Resolution(tx, bet_match, Some(FALSE), Some(escrow_less_fee), Some(0),
                                 "None", <<>>, fee))
        ELSE IF credits.bull_credit <= 0
        THEN Decision("settled: liquidated for bear",
                      <<<<bear_address, escrow_less_fee>>, feed_fee>>,
                      Resolution(tx, bet_match, Some(FALSE), Some(0), Some(escrow_less_fee),
                                 "None", <<>>, fee))
        ELSE IF timestamp >= bet_match.deadline
        THEN Decision("settled",
                      <<<<bull_address, credits.bull_credit>>,
                        <<bear_address, credits.bear_credit>>, feed_fee>>,
                      Resolution(tx, bet_match, Some(TRUE), Some(credits.bull_credit),
                                 Some(credits.bear_credit), "None", <<>>, fee))
        ELSE Undecided

\* Equal / NotEqual at the deadline (lines 493-554)
DecideEqual(tx, value, bet_match, escrow_less_fee, fee) ==
    LET tx0_is_equal == bet_match.tx0_bet_type < bet_match.tx1_bet_type
        equal_address == IF tx0_is_equal THEN bet_match.tx0_address ELSE bet_match.tx1_address
        notequal_address == IF tx0_is_equal THEN bet_match.tx1_address
                            ELSE bet_match.tx0_address
        feed_fee == <<bet_match.feed_address, fee>>
    IN  IF value = bet_match.target_value
        THEN Decision("settled: for equal", <<<<equal_address, escrow_less_fee>>, feed_fee>>,
                      Resolution(tx, bet_match, <<>>, <<>>, <<>>, "Equal",
                                 Some(escrow_less_fee), fee))
        ELSE Decision("settled: for notequal",
                      <<<<notequal_address, escrow_less_fee>>, feed_fee>>,
                      Resolution(tx, bet_match, <<>>, <<>>, <<>>, "NotEqual",
                                 Some(escrow_less_fee), fee))

\* the fee fraction in force (lines 349-352)
FeeFractionFor(bet_match, fee_fraction_int) ==
    IF enabled("inmutable_fee_fraction") THEN bet_match.fee_fraction_int ELSE fee_fraction_int

\* the body of the loop for one bet match (lines 340-569)
Decide(tx, timestamp, value, fee_fraction_int, bet_match) ==
    LET total_escrow == bet_match.forward_quantity + bet_match.backward_quantity
        fee == Fee(FeeFractionFor(bet_match, fee_fraction_int), total_escrow)
        escrow_less_fee == total_escrow - fee
        cfd_type_id == BET_TYPE_ID.BullCFD + BET_TYPE_ID.BearCFD
        equal_type_id == BET_TYPE_ID.Equal + BET_TYPE_ID.NotEqual
        bet_match_type_id == bet_match.tx0_bet_type + bet_match.tx1_bet_type
    IN  IF bet_match_type_id = cfd_type_id
        THEN DecideCfd(tx, timestamp, value, bet_match, escrow_less_fee, fee)
        ELSE IF bet_match_type_id = equal_type_id /\ timestamp >= bet_match.deadline
        THEN DecideEqual(tx, value, bet_match, escrow_less_fee, fee)
        ELSE Undecided

\* the events of one pass of the loop: a CREDIT for each credit in the order
\* issued, the BET_MATCH_RESOLUTION record, the BET_MATCH_UPDATE of the status
SettleEvents(bet_match, d) ==
    [k \in DOMAIN d.moves |->
        [event |-> "CREDIT", address |-> d.moves[k][1], quantity |-> d.moves[k][2],
         bet_match_id |-> make_id(bet_match)]]
    \o <<[event |-> "BET_MATCH_RESOLUTION", bet_match_id |-> make_id(bet_match)],
         [event |-> "BET_MATCH_UPDATE", bet_match_id |-> make_id(bet_match),
          status |-> d.status]>>

\* variant: the status of the bet match is not updated
SettledStaysPending(bet_match, l, d, paid) ==
    IF d.status = "" THEN l
    ELSE IF paid.raised # "none" THEN [l EXCEPT !.raised = paid.raised]
    ELSE [l EXCEPT !.balances = paid.balances,
                   !.bet_match_resolutions = Append(@, d.resolution),
                   !.events = @ \o SettleEvents(bet_match, d)]

\* one pass of the loop: the credits, the resolution row, the status
Settled(bet_match, l, d, paid) ==
    IF d.status = "" THEN l
    ELSE IF paid.raised # "none" THEN [l EXCEPT !.raised = paid.raised]
    ELSE [l EXCEPT !.balances = paid.balances,
                   !.bet_match_resolutions = Append(@, d.resolution),
                   !.bet_matches = update_bet_match_status(@, make_id(bet_match), d.status),
                   !.events = @ \o SettleEvents(bet_match, d)]

SettleBetMatch(tx, timestamp, value, fee_fraction_int, bet_match, l) ==
    CHOOSE r \in
        {Settled(bet_match, l, d, Credits(l.balances, d.moves)) :
         d \in {Decide(tx, timestamp, value, fee_fraction_int, bet_match)}} : TRUE

\* the loop over the pending bet matches of the feed (line 339)
RECURSIVE SettleBetMatches(_, _, _, _, _, _)
SettleBetMatches(tx, timestamp, value, fee_fraction_int, pending, l) ==
    IF pending = <<>> \/ l.raised # "none" THEN l
    ELSE CHOOSE r \in
             {SettleBetMatches(tx, timestamp, value, fee_fraction_int, Tail(pending), next) :
              next \in {SettleBetMatch(tx, timestamp, value, fee_fraction_int,
                                       Head(pending), l)}} : TRUE

\* bet.cancel_bet(db, bet, "dropped", tx_index) for each open bet on the feed:
\* the bet is dropped and its remaining wager goes back to its source
RECURSIVE CancelBets(_, _, _)
CancelBets(i, feed_address, l) ==
    IF i > Len(l.bets) THEN l
    ELSE IF l.bets[i].feed_address = feed_address /\ l.bets[i].status = "open"
    THEN CancelBets(i + 1, feed_address,
             [l EXCEPT !.bets[i].status = "dropped",
                       !.balances = credit(@, l.bets[i].source, XCP, l.bets[i].wager_remaining)])
    ELSE CancelBets(i + 1, feed_address, l)

\* bet.cancel_bet_match(db, bet_match, "dropped", tx_index) for each pending
\* bet match of the feed: both sides get their escrow back
RECURSIVE CancelBetMatches(_, _)
CancelBetMatches(pending, l) ==
    IF pending = <<>> THEN l
    ELSE CancelBetMatches(Tail(pending),
             [l EXCEPT !.bet_matches = update_bet_match_status(@, make_id(Head(pending)),
                                                               "dropped"),
                       !.balances = credit(credit(@, Head(pending).tx0_address, XCP,
                                                  Head(pending).forward_quantity),
                                           Head(pending).tx1_address, XCP,
                                           Head(pending).backward_quantity)])

---------------------------------------------------------------------------
(* broadcast.parse *)

\* what parse leaves behind, its status, and the exception that escaped it
BroadcastOutcome(rows, options, l, status, problems) ==
    [broadcasts |-> rows, addresses |-> options, balances |-> l.balances,
     bet_matches |-> l.bet_matches, bets |-> l.bets,
     bet_match_resolutions |-> l.bet_match_resolutions, events |-> l.events,
     status |-> status, problems |-> problems, raised |-> l.raised]

CurrentLedger == Ledger(balances, bet_matches, bets, bet_match_resolutions)

\* an exception escapes parse: nothing of the transaction is kept
BroadcastRaise(exception) ==
    [BroadcastOutcome(broadcasts, addresses, CurrentLedger, "raised", <<>>)
     EXCEPT !.raised = exception]

\* min(value, config.MAX_INT) for a value in ticks
ClampValue(value) == IF ValueAbove(value, MAX_INT) THEN MAX_INT * ValueDen ELSE value

\* a field of a valid unpack is None where min() or validate compares it
NoneCompared(u) ==
    u.status = "valid" /\ (u.timestamp = <<>> \/ u.value = <<>> \/ u.fee_fraction_int = <<>>)

\* the fields after lines 260-267: clamped, validated
Checked(tx, u) ==
    IF u.status # "valid"
    THEN [timestamp |-> u.timestamp[1], value |-> u.value,
          fee_fraction_int |-> u.fee_fraction_int, text |-> u.text, mime_type |-> u.mime_type,
          status |-> u.status, problems |-> <<>>, lock |-> FALSE]
    ELSE LET timestamp == Min(u.timestamp[1], MAX_INT)
             value == ClampValue(u.value[1])
             problems == broadcast_validate(tx.source, timestamp, value, u.fee_fraction_int[1],
                                            u.text[1], u.mime_type)
         IN  [timestamp |-> timestamp, value |-> Some(value),
              fee_fraction_int |-> u.fee_fraction_int, text |-> u.text,
              mime_type |-> u.mime_type,
              status |-> IF problems = <<>> THEN "valid" ELSE "invalid: problems",
              problems |-> problems, lock |-> FALSE]

\* text and text.lower() == "lock" (line 271)
IsLock(text) == text # <<>> /\ text[1] # <<>> /\ Lower(text[1]) = TextLock

\* variant: the lock leaves the value of the message in place
LockedKeepsValue(c) ==
    IF IsLock(c.text)
    THEN [c EXCEPT !.timestamp = 0, !.fee_fraction_int = <<>>, !.text = <<>>, !.lock = TRUE]
    ELSE c

\* the fields after the lock is applied (lines 269-275)
Locked(c) ==
    IF IsLock(c.text)
    THEN [c EXCEPT !.timestamp = 0, !.value = <<>>, !.fee_fraction_int = <<>>, !.text = <<>>,
                   !.lock = TRUE]
    ELSE c

\* the reasons in which the words "integer overflow" occur
OverflowReasons == {"integer overflow", "options integer overflow"}

\* "integer overflow" in status (line 291): a search in the status string
MentionsOverflow(problems) == \E i \in DOMAIN problems : problems[i] \in OverflowReasons

\* insert_record unless the status mentions an integer overflow (lines 291-292)
Recorded(tx, c) ==
    IF MentionsOverflow(c.problems) THEN broadcasts
    ELSE Append(broadcasts, BroadcastRow(tx, c.timestamp, c.value, c.fee_fraction_int, c.text,
                                         c.lock, c.status, c.problems, c.mime_type))

\* the options of the text, when the text sets options (lines 301-302)
OptionsOf(c) ==
    IF enabled("options_require_memo") /\ c.text # <<>> /\ IsOptionsText(c.text[1])
    THEN parse_options_from_string(c.text[1])
    ELSE [kind |-> "false", n |-> 0]

\* insert_record / insert_update on the addresses table (lines 303-315)
UpsertOptions(tx, options) ==
    IF options.kind = "options" THEN (tx.source :> options.n) @@ addresses ELSE addresses

\* variant: -2 cancels the pending bet matches and -3 the open bets
CancelSwapped(tx, value) ==
    IF value = <<>> THEN CurrentLedger
    ELSE IF value[1] = (-3) * ValueDen THEN CancelBets(1, tx.source, CurrentLedger)
    ELSE IF value[1] = (-2) * ValueDen
    THEN CancelBetMatches(get_pending_bet_matches(bet_matches, tx.source), CurrentLedger)
    ELSE CurrentLedger

\* a value that is None or negative: the two cancelling values (lines 318-328)
Cancel(tx, value) ==
    IF value = <<>> THEN CurrentLedger
    ELSE IF value[1] = (-2) * ValueDen THEN CancelBets(1, tx.source, CurrentLedger)
    ELSE IF value[1] = (-3) * ValueDen
    THEN CancelBetMatches(get_pending_bet_matches(bet_matches, tx.source), CurrentLedger)
    ELSE CurrentLedger

\* variant: an invalid broadcast is processed whatever broadcast_invalid_check says
ProcessInvalidToo(tx, c, rows) ==
    IF OptionsOf(c).kind = "OptionsError" THEN BroadcastRaise("OptionsError")
    ELSE IF c.value = <<>> \/ c.value[1] < 0
    THEN BroadcastOutcome(rows, UpsertOptions(tx, OptionsOf(c)), Cancel(tx, c.value),
                          c.status, c.problems)
    ELSE IF enabled("max_fee_fraction") /\ c.status # "valid"
    THEN BroadcastOutcome(rows, UpsertOptions(tx, OptionsOf(c)), CurrentLedger,
                          c.status, c.problems)
    ELSE CHOOSE r \in
             {IF l.raised # "none" THEN BroadcastRaise(l.raised)
              ELSE BroadcastOutcome(rows, UpsertOptions(tx, OptionsOf(c)), l, c.status, c.problems) :
              l \in {SettleBetMatches(tx, c.timestamp, c.value[1], c.fee_fraction_int[1],
                                      get_pending_bet_matches(bet_matches, tx.source),
                                      CurrentLedger)}} : TRUE

\* parse after the record is written (lines 296-571)
Process(tx, c, rows) ==
    IF enabled("broadcast_invalid_check") /\ c.status # "valid"
    THEN BroadcastOutcome(rows, addresses, CurrentLedger, c.status, c.problems)
    ELSE IF OptionsOf(c).kind = "OptionsError" THEN BroadcastRaise("OptionsError")
    ELSE IF c.value = <<>> \/ c.value[1] < 0
    THEN BroadcastOutcome(rows, UpsertOptions(tx, OptionsOf(c)), Cancel(tx, c.value),
                          c.status, c.problems)
    ELSE IF enabled("max_fee_fraction") /\ c.status # "valid"
    THEN BroadcastOutcome(rows, UpsertOptions(tx, OptionsOf(c)), CurrentLedger,
                          c.status, c.problems)
    ELSE CHOOSE r \in
             {IF l.raised # "none" THEN BroadcastRaise(l.raised)
              ELSE BroadcastOutcome(rows, UpsertOptions(tx, OptionsOf(c)), l, c.status, c.problems) :
              l \in {SettleBetMatches(tx, c.timestamp, c.value[1], c.fee_fraction_int[1],
                                      get_pending_bet_matches(bet_matches, tx.source),
                                      CurrentLedger)}} : TRUE

\* parse of what unpack returned
broadcast_parse_unpacked(tx, u) ==
    IF u.raised # "none" THEN BroadcastRaise(u.raised)
    ELSE IF NoneCompared(u) THEN BroadcastRaise("TypeError")
    ELSE CHOOSE r \in {Process(tx, c, Recorded(tx, c)) : c \in {Locked(Checked(tx, u))}} : TRUE

\* each step works on the value of the step before it
broadcast_parse(tx, message) ==
    CHOOSE r \in {broadcast_parse_unpacked(tx, u) : u \in {broadcast_unpack(message)}} : TRUE

---------------------------------------------------------------------------
(* The broadcast state machine: broadcasts of two feeds reach parse while   *)
(* a contract for difference and two Equal/NotEqual matches on feed F pend. *)

\* broadcasts parsed in a behaviour
MaxBroadcasts == 2

BetMatch(tx0_index, tx1_index, tx0_bet_type, tx1_bet_type, forward_quantity, backward_quantity) ==
    [tx0_index |-> tx0_index, tx1_index |-> tx1_index, tx0_address |-> "A",
     tx1_address |-> "B", tx0_bet_type |-> tx0_bet_type, tx1_bet_type |-> tx1_bet_type,
     feed_address |-> "F", initial_value |-> ValueDen, deadline |-> 2,
     target_value |-> ValueDen, leverage |-> LEVERAGE_DEN,
     forward_quantity |-> forward_quantity, backward_quantity |-> backward_quantity,
     fee_fraction_int |-> 5000000, status |-> "pending"]

\* A is bull and B is bear of a contract for difference on F with initial
\* value 1.0; C bets Equal and D NotEqual on the value 1.0; H bets NotEqual
\* and E, with the later bet, Equal on the value 1.0; deadline 2.  The bet
\* of C is older than those of A and B
InitialBetMatches ==
    <<BetMatch(2, 3, BET_TYPE_ID.BullCFD, BET_TYPE_ID.BearCFD, 200001, 200000),
      [BetMatch(1, 4, BET_TYPE_ID.Equal, BET_TYPE_ID.NotEqual, 10, 10)
       EXCEPT !.tx0_address = "C", !.tx1_address = "D"],
      [BetMatch(7, 8, BET_TYPE_ID.NotEqual, BET_TYPE_ID.Equal, 10, 20)
       EXCEPT !.tx0_address = "H", !.tx1_address = "E"]>>

\* an open bet of A on F and one of B on G that found no counterpart
InitialBets ==
    <<[tx_index |-> 5, source |-> "A", feed_address |-> "F", wager_remaining |-> 7,
       status |-> "open"],
      [tx_index |-> 6, source |-> "B", feed_address |-> "G", wager_remaining |-> 3,
       status |-> "open"]>>

Fields(timestamp, value, fee_fraction_int, text) ==
    [timestamp |-> timestamp, value |-> value, fee_fraction_int |-> fee_fraction_int,
     text |-> text]

\* what the feed F broadcasts: values around the initial value 1.0 before
\* and at the deadline, values that liquidate (for the bull before the
\* deadline, for the bear after it), a lock, the cancelling
\* values -2 and -3, a fee fraction of 2, the options texts "options 1", "options x", "options -1",
\* the texts "Lock" and "lock" with the values -2, -3 and 3.0, and the value -1
FeedBroadcasts ==
    {Fields(1, ValueDen + 1, 0, <<>>),
     Fields(2, ValueDen + 1, 0, <<>>),
     Fields(2, ValueDen, 5000000, <<>>),
     Fields(1, 3 * ValueDen, 0, <<>>),
     Fields(3, 0, 0, <<>>),
     Fields(3, 0, 0, TextLock),
     Fields(3, (-2) * ValueDen, 0, <<>>),
     Fields(3, (-3) * ValueDen, 0, <<>>),
     Fields(3, 0, 2 * UNIT, <<>>),
     Fields(3, 0, 0, TextOptions \o <<32, 49>>),
     Fields(3, 0, 0, TextOptions \o <<32, 120>>),
     Fields(3, 0, 0, TextOptions \o <<32, 45, 49>>),
     Fields(3, (-2) * ValueDen, 0, <<76, 111, 99, 107>>),
     Fields(3, (-3) * ValueDen, 0, TextLock),
     Fields(3, 3 * ValueDen, 0, TextLock),
     Fields(3, -ValueDen, 0, <<>>)}

\* what the feed G broadcasts
OtherBroadcasts ==
    {Fields(1, ValueDen + 1, 0, <<>>), Fields(3, 0, 0, TextLock)}

\* payloads no compose built: three bytes; the 16-byte header alone; a varint
\* that announces more text than follows; a CBOR array with a null timestamp;
\* a CBOR array with a fee fraction above MAX_INT
OddPayloads ==
    {<<1, 2, 3>>,
     PackHeader(3, 0, 0),
     PackHeader(3, 0, 0) \o <<5, 97>>,
     CborArray5(CborNull, CborDouble(0), CborInt(0), CborText(<<>>), CborBytes(<<>>)),
     CborArray5(CborInt(3), CborInt(0), CborInt(MAX_INT + 1), CborText(<<>>), CborBytes(<<>>))}

\* the payload a node composes for the fields under the flags in force
Payload(source, f) ==
    ComposeData(source, f.timestamp, f.value, f.fee_fraction_int, f.text, <<>>)

\* the texts of the machine are short: no_zero_expiration decides nothing
\* here and is on
BroadcastFlagTables ==
    [taproot_support : BOOLEAN, broadcast_pack_text : BOOLEAN, no_zero_expiration : {TRUE},
     max_fee_fraction : BOOLEAN, options_require_memo : BOOLEAN,
     broadcast_invalid_check : BOOLEAN, inmutable_fee_fraction : BOOLEAN]

InitBroadcast ==
    /\ parsing_mempool = FALSE
    /\ NoAPIServer
    /\ flags \in BroadcastFlagTables
    /\ block_index = FirstBlock
    /\ tx_index = FirstBroadcastTx
    /\ NoDispenserTables
    /\ balances = <<>>
    /\ broadcasts = <<>>
    /\ bet_matches = InitialBetMatches
    /\ bets = InitialBets
    /\ addresses = <<>>
    /\ bet_match_resolutions = <<>>
    /\ raised = "none"
    /\ call = NoCall

\* the transaction that carries a broadcast
BroadcastTx(source) == [tx_index |-> tx_index, source |-> source, block_index |-> block_index]

\* the tables broadcast.parse reads and writes
BroadcastTables ==
    [broadcasts |-> broadcasts, addresses |-> addresses, balances |-> balances,
     bet_matches |-> bet_matches, bets |-> bets,
     bet_match_resolutions |-> bet_match_resolutions]

\* the fields parse works on after lines 260-275, when unpack returned fields
\* that min() and validate can compare
CheckedFields(tx, u) ==
    IF u.raised # "none" \/ NoneCompared(u) THEN <<>> ELSE <<Locked(Checked(tx, u))>>

\* the parse that ended last: its source, what unpack returned, the fields
\* it worked on, its status and reasons, the events its loop over the bet
\* matches journaled, and the tables it found
ParseCall(tx, u, r) ==
    [stage |-> "broadcast parsed", source |-> tx.source, tx_index |-> tx.tx_index,
     unpacked |-> u, checked |-> CheckedFields(tx, u), status |-> r.status,
     problems |-> r.problems, events |-> r.events, before |-> BroadcastTables]

\* the state after parse of what unpack returned ended with r
Parsed(tx, u, r) ==
    /\ tx_index' = tx_index + 1
    /\ broadcasts' = r.broadcasts
    /\ addresses' = r.addresses
    /\ balances' = r.balances
    /\ bet_matches' = r.bet_matches
    /\ bets' = r.bets
    /\ bet_match_resolutions' = r.bet_match_resolutions
    /\ raised' = r.raised
    /\ call' = ParseCall(tx, u, r)
    /\ UNCHANGED outside_ledger
    /\ UNCHANGED <<flags, block_index, dispenser_tables>>

\* blocks.parse_tx: a broadcast message (ID 30) of a feed reaches broadcast.parse
ParseBroadcast ==
    /\ raised = "none"
    /\ tx_index < FirstBroadcastTx + MaxBroadcasts
    /\ \E in \in ({"F"} \X FeedBroadcasts) \cup ({"G"} \X OtherBroadcasts) :
        \E u \in {broadcast_unpack(Payload(in[1], in[2]))} :
            \E r \in {broadcast_parse_unpacked(BroadcastTx(in[1]), u)} :
                Parsed(BroadcastTx(in[1]), u, r)

\* a payload that no compose built reaches broadcast.parse
ParseOddBroadcast ==
    /\ raised = "none"
    /\ tx_index < FirstBroadcastTx + MaxBroadcasts
    /\ \E message \in OddPayloads :
        \E u \in {broadcast_unpack(message)} :
            \E r \in {broadcast_parse_unpacked(BroadcastTx("F"), u)} :
                Parsed(BroadcastTx("F"), u, r)

NextBroadcast == ParseBroadcast \/ ParseOddBroadcast

SpecBroadcast == InitBroadcast /\ [][NextBroadcast]_vars

---------------------------------------------------------------------------
(* Properties of the broadcast state machine *)

\* C1 as stated: for every source the timestamps of its valid broadcasts,
\* lock rows included, strictly increase in recording order
C1_TimestampsIncrease ==
    \A source \in Feeds :
        LET valid == get_broadcasts_by_source(source)
        IN  \A i, j \in DOMAIN valid : i < j => valid[i].timestamp < valid[j].timestamp

\* C1: for every source the timestamps of its valid broadcasts that are no
\* lock strictly increase in recording order; a valid lock broadcast is
\* recorded with timestamp 0 and no valid broadcast of the source follows it
C1_TimestampsIncreaseUpToLock ==
    \A source \in Feeds :
        LET valid == get_broadcasts_by_source(source)
        IN  /\ \A i \in DOMAIN valid : valid[i].locked => (i = Len(valid) /\ valid[i].timestamp = 0)
            /\ \A i, j \in DOMAIN valid :
                   (i < j /\ ~valid[j].locked) => valid[i].timestamp < valid[j].timestamp

\* a feed with a valid broadcast of positive timestamp followed by a valid lock
C1_Witness ==
    \E source \in Feeds :
        LET valid == get_broadcasts_by_source(source)
        IN  Len(valid) = 2 /\ valid[1].timestamp > 0 /\ valid[2].locked

\* the bet match a resolution names
MatchOf(resolution) ==
    CHOOSE m \in Range(bet_matches) : make_id(m) = resolution.bet_match_id

\* C2: for every resolved contract for difference, bull_credit + bear_credit
\* + fee equals forward_quantity + backward_quantity
C2_Conservation ==
    \A r \in Range(bet_match_resolutions) :
        r.bet_match_type_id = BET_TYPE_ID.BullCFD + BET_TYPE_ID.BearCFD =>
            r.bull_credit[1] + r.bear_credit[1] + r.fee
                = MatchOf(r).forward_quantity + MatchOf(r).backward_quantity

\* what parse leaves alone when it changes no balance, bet, bet match,
\* address option or dispenser
NothingMoved(r) ==
    /\ r.balances = balances
    /\ r.bets = bets
    /\ r.bet_matches = bet_matches
    /\ r.bet_match_resolutions = bet_match_resolutions
    /\ r.addresses = addresses

\* C8: no exception escapes broadcast.parse, and in every state every
\* payload that cannot be decoded is parsed without an exception, with
\* status "invalid: could not unpack" and without moving anything
C8_ReplayTotal ==
    /\ raised = "none"
    /\ \A message \in OddPayloads :
           \A r \in {broadcast_parse(BroadcastTx("F"), message)} :
               /\ r.raised = "none"
               /\ broadcast_unpack(message).status # "valid" =>
                      (r.status = "invalid: could not unpack" /\ NothingMoved(r))

---------------------------------------------------------------------------
(* Balances of the dispenser state machine *)

\* C5: no balance is negative
C5_NoNegativeBalance ==
    \A k \in DOMAIN balances : balances[k] >= 0

\* A escrowed its whole balance in dispensers, and a further open or refill
\* of A is refused without a debit
C5_Witness ==
    /\ dispensers # <<>>
    /\ balances[<<"A", XCP>>] = 0
    /\ \E m \in OpenMessages :
           \E r \in {parse_unpacked(Transaction("A", NoOutput),
                        UnpackedMessages[m][enabled("dispenser_origin_permission_extended")])} :
               r.status # "valid" /\ r.raised = "none" /\ r.balances = balances

---------------------------------------------------------------------------
(* compose with timestamp 0 *)

\* compose was called with timestamp 0 on a feed that has a last valid
\* broadcast, and its payload was unpacked
ComposedAfterLast ==
    /\ call.stage = "broadcast unpacked"
    /\ call.input.timestamp = 0
    /\ get_broadcasts_by_source(call.input.source) # <<>>

\* C11: the payload compose returns for timestamp 0 on a feed whose last
\* valid broadcast has timestamp T encodes T + 1, and parse finds it valid
C11_ComposeNextTimestamp ==
    ComposedAfterLast =>
        LET valid == get_broadcasts_by_source(call.input.source)
        IN  /\ call.output.timestamp = Some(valid[Len(valid)].timestamp + 1)
            /\ call.output.raised = "none"
            /\ call.output.status = "valid"
            /\ Checked(BroadcastTx(call.input.source), call.output).status = "valid"


---------------------------------------------------------------------------
(* What one parse records and changes *)

\* a parse ended without an exception
ParseReturned == call.stage = "broadcast parsed" /\ raised = "none"

\* the broadcasts table holds exactly one row more than before the parse
OneMoreRow ==
    /\ Len(broadcasts) = Len(call.before.broadcasts) + 1
    /\ SubSeq(broadcasts, 1, Len(call.before.broadcasts)) = call.before.broadcasts
    /\ broadcasts[Len(broadcasts)].tx_index = call.tx_index

\* C14: a parse inserts exactly one broadcasts row for the broadcast, valid
\* or invalid, except that it inserts none when the validation reasons
\* include "integer overflow", and only then
C14_OneRowUnlessOverflow ==
    ParseReturned =>
        IF \E i \in DOMAIN call.problems : call.problems[i] = "integer overflow"
        THEN broadcasts = call.before.broadcasts
        ELSE OneMoreRow


---------------------------------------------------------------------------
(* Locked feeds *)

\* the rows of a source recorded with status "valid", in recording order
ValidRows(rows, source) ==
    SelectSeq(rows, LAMBDA row : row.source = source /\ row.status = "valid")

\* the last valid broadcast of the source among the rows is a lock
FeedLocked(rows, source) ==
    LET valid == ValidRows(rows, source)
    IN  valid # <<>> /\ valid[Len(valid)].locked

\* the parse that ended last was given fields by unpack and validated them
ParseValidated ==
    /\ call.stage = "broadcast parsed"
    /\ call.checked # <<>>
    /\ call.checked[1].status \in {"valid", "invalid: problems"}

\* C13: once the last valid broadcast of a source is a lock, every later
\* broadcast of that source gets an invalid status whose reasons include
\* "locked feed", whatever its timestamp, value or text, and no broadcast of
\* the source is recorded as valid after the lock
C13_LockedFeedRefuses ==
    /\ (ParseValidated /\ FeedLocked(call.before.broadcasts, call.source)) =>
           /\ call.checked[1].status = "invalid: problems"
           /\ \E i \in DOMAIN call.checked[1].problems :
                  call.checked[1].problems[i] = "locked feed"
    /\ \A i, j \in DOMAIN broadcasts :
           (/\ i < j
            /\ broadcasts[i].source = broadcasts[j].source
            /\ broadcasts[i].status = "valid"
            /\ broadcasts[i].locked) => broadcasts[j].status # "valid"

\* a locked feed broadcast a later timestamp with an empty text, and "locked
\* feed" is the only reason against it
C13_Witness ==
    /\ ParseValidated
    /\ FeedLocked(call.before.broadcasts, call.source)
    /\ call.checked[1].timestamp > 0
    /\ call.checked[1].problems = <<"locked feed">>
    /\ Len(broadcasts) = 2
    /\ broadcasts[2].status = "invalid: problems"


---------------------------------------------------------------------------
(* What a broadcast leaves alone *)

\* the parse that ended last left every table but broadcasts as it found it
NothingMovedSince ==
    /\ balances = call.before.balances
    /\ bets = call.before.bets
    /\ bet_matches = call.before.bet_matches
    /\ bet_match_resolutions = call.before.bet_match_resolutions
    /\ addresses = call.before.addresses

\* the status parse gave the broadcast is "valid"
ParsedValid == call.checked # <<>> /\ call.checked[1].status = "valid"

\* C15: when broadcast_invalid_check is active, a broadcast whose status is
\* not valid changes nothing beyond its own broadcasts row: no address
\* option, no bet, no bet match, no resolution and no balance
C15_InvalidChangesNothing ==
    (/\ call.stage = "broadcast parsed"
     /\ enabled("broadcast_invalid_check")
     /\ ~ParsedValid) =>
        /\ NothingMovedSince
        /\ broadcasts = call.before.broadcasts \/ OneMoreRow

\* under broadcast_invalid_check a feed repeated its timestamp with the value
\* -2 while a bet on it was open: the broadcast is recorded as invalid and
\* the bet is still open
C15_Witness ==
    /\ ParseValidated
    /\ enabled("broadcast_invalid_check")
    /\ call.checked[1].status = "invalid: problems"
    /\ call.checked[1].value = Some((-2) * ValueDen)
    /\ OneMoreRow
    /\ \E i \in DOMAIN bets : bets[i].feed_address = call.source /\ bets[i].status = "open"


\* the parse that ended last worked on a text that is "lock" in any case
ParsedLock == call.stage = "broadcast parsed" /\ call.checked # <<>> /\ call.checked[1].lock

\* the row of the parse that ended last is a lock row with its fields cleared
LockRow ==
    LET row == broadcasts[Len(broadcasts)]
    IN  /\ row.locked
        /\ row.timestamp = 0
        /\ row.value = <<>>
        /\ row.fee_fraction_int = <<>>
        /\ row.text = <<>>

\* C16: a broadcast whose text is "lock" in any case is recorded with locked
\* = true and timestamp, value, fee_fraction_int and text cleared, and changes
\* no address option, bet, bet match, resolution or balance, whatever its value
C16_LockOnly ==
    ParsedLock =>
        /\ NothingMovedSince
        /\ IF MentionsOverflow(call.problems) THEN broadcasts = call.before.broadcasts
           ELSE OneMoreRow /\ LockRow

\* a valid broadcast "Lock" with value -2 was recorded as a lock while a bet
\* on the feed was open and its bet matches pending
C16_Witness ==
    /\ ParsedLock
    /\ ParsedValid
    /\ call.unpacked.text = Some(<<76, 111, 99, 107>>)
    /\ call.unpacked.value = Some((-2) * ValueDen)
    /\ OneMoreRow
    /\ LockRow
    /\ \E i \in DOMAIN bets : bets[i].feed_address = call.source /\ bets[i].status = "open"
    /\ \E i \in DOMAIN bet_matches :
           bet_matches[i].feed_address = call.source /\ bet_matches[i].status = "pending"
    /\ ~enabled("broadcast_invalid_check")


---------------------------------------------------------------------------
(* The cancelling values *)

\* the bets with every open bet on the feed dropped
BetsDropped(all_bets, feed_address) ==
    [i \in DOMAIN all_bets |->
        IF all_bets[i].feed_address = feed_address /\ all_bets[i].status = "open"
        THEN [all_bets[i] EXCEPT !.status = "dropped"] ELSE all_bets[i]]

\* the bet matches with every pending bet match of the feed dropped
MatchesDropped(matches, feed_address) ==
    [i \in DOMAIN matches |->
        IF matches[i].feed_address = feed_address /\ matches[i].status = "pending"
        THEN [matches[i] EXCEPT !.status = "dropped"] ELSE matches[i]]

\* the parse that ended last found the broadcast valid, with a value that is
\* None or negative
ParsedValidNegative ==
    /\ call.stage = "broadcast parsed"
    /\ ParsedValid
    /\ (call.checked[1].value = <<>> \/ call.checked[1].value[1] < 0)

\* C17: a valid broadcast with value -2 drops every open bet on its feed and
\* touches no bet match; with value -3 it drops every pending bet match of
\* its feed and touches no open bet; with any other negative value or no
\* value it changes no bet and no bet match; in all these cases nothing is
\* settled, no resolution is written and the feed is credited no fee
C17_CancellingValues ==
    ParsedValidNegative =>
        LET value == call.checked[1].value
        IN  /\ bet_match_resolutions = call.before.bet_match_resolutions
            /\ \A feed \in Feeds :
                   <<feed, XCP>> \in DOMAIN balances =>
                       /\ <<feed, XCP>> \in DOMAIN call.before.balances
                       /\ balances[<<feed, XCP>>] = call.before.balances[<<feed, XCP>>]
            /\ IF value = Some((-2) * ValueDen)
               THEN /\ bets = BetsDropped(call.before.bets, call.source)
                    /\ bet_matches = call.before.bet_matches
               ELSE IF value = Some((-3) * ValueDen)
               THEN /\ bet_matches = MatchesDropped(call.before.bet_matches, call.source)
                    /\ bets = call.before.bets
               ELSE /\ bets = call.before.bets
                    /\ bet_matches = call.before.bet_matches
                    /\ balances = call.before.balances

\* a valid broadcast of F with value -2 dropped the open bet on F while the
\* open bet on G and the pending bet matches of F stayed as they were
C17_WitnessBets ==
    /\ ParsedValidNegative
    /\ call.source = "F"
    /\ call.checked[1].value = Some((-2) * ValueDen)
    /\ \E i \in DOMAIN bets :
           /\ bets[i].feed_address = "F"
           /\ call.before.bets[i].status = "open"
           /\ bets[i].status = "dropped"
    /\ \E i \in DOMAIN bets : bets[i].feed_address = "G" /\ bets[i].status = "open"
    /\ \E i \in DOMAIN bet_matches : bet_matches[i].status = "pending"


---------------------------------------------------------------------------
(* Resolutions *)

\* the resolutions written for a bet match
ResolutionsOf(bet_match) ==
    SelectSeq(bet_match_resolutions, LAMBDA r : r.bet_match_id = make_id(bet_match))

\* the bet match was pending before the parse that ended last and still is
StillPending(i) ==
    call.before.bet_matches[i].status = "pending" /\ bet_matches[i].status = "pending"

\* C18: a bet match for which parse issues a credit or writes a resolution
\* leaves the status pending in the same parse, so every bet match has at
\* most one resolution, none while it is pending, and a parse after which
\* every pending bet match is still pending credited nothing and resolved
\* nothing
C18_ResolvedOnce ==
    /\ \A i \in DOMAIN bet_matches :
           /\ Len(ResolutionsOf(bet_matches[i])) <= 1
           /\ bet_matches[i].status = "pending" => ResolutionsOf(bet_matches[i]) = <<>>
    /\ (/\ call.stage = "broadcast parsed"
        /\ bets = call.before.bets
        /\ \A i \in DOMAIN bet_matches :
               call.before.bet_matches[i].status = "pending" => StillPending(i)) =>
           /\ balances = call.before.balances
           /\ bet_match_resolutions = call.before.bet_match_resolutions

\* a broadcast before the deadline liquidated the contract for difference,
\* and the next broadcast of the feed, at the deadline, settled the two
\* other bet matches only: three resolutions for three bet matches
C18_Witness ==
    /\ ParseReturned
    /\ Len(call.before.bet_match_resolutions) = 1
    /\ Len(bet_match_resolutions) = 3
    /\ \A i, j \in DOMAIN bet_match_resolutions :
           i # j => bet_match_resolutions[i].bet_match_id # bet_match_resolutions[j].bet_match_id
    /\ \A i \in DOMAIN bet_matches : bet_matches[i].status # "pending"


---------------------------------------------------------------------------
(* Liquidation and settlement of a contract for difference *)

\* what the parse that ended last added to the XCP balance of an address
Gain(address) ==
    (IF <<address, XCP>> \in DOMAIN balances THEN balances[<<address, XCP>>] ELSE 0)
    - (IF <<address, XCP>> \in DOMAIN call.before.balances
       THEN call.before.balances[<<address, XCP>>] ELSE 0)

\* the resolutions the parse that ended last wrote
NewResolutions ==
    SubSeq(bet_match_resolutions, Len(call.before.bet_match_resolutions) + 1,
           Len(bet_match_resolutions))

\* the fees of those resolutions
NewFees == SeqSum([k \in DOMAIN NewResolutions |-> NewResolutions[k].fee])

\* the resolutions the parse that ended last wrote for the bet match
NewResolutionsOf(bet_match) ==
    SelectSeq(NewResolutions, LAMBDA r : r.bet_match_id = make_id(bet_match))

\* the bet matches that were pending contracts for difference on the feed of
\* a valid broadcast with a value of 0 or more
PendingCfds ==
    IF call.stage = "broadcast parsed" /\ ParsedValid /\ call.checked[1].value # <<>>
       /\ call.checked[1].value[1] >= 0
    THEN {i \in DOMAIN call.before.bet_matches :
            /\ call.before.bet_matches[i].feed_address = call.source
            /\ call.before.bet_matches[i].status = "pending"
            /\ call.before.bet_matches[i].tx0_bet_type + call.before.bet_matches[i].tx1_bet_type
                   = BET_TYPE_ID.BullCFD + BET_TYPE_ID.BearCFD}
    ELSE {}

\* the terms of the bet match under the broadcast of the parse that ended
\* last: the sides, the fee, the escrow less the fee and the rounded credits
Terms(bet_match) ==
    LET tx0_is_bull == bet_match.tx0_bet_type < bet_match.tx1_bet_type
        total_escrow == bet_match.forward_quantity + bet_match.backward_quantity
        fee == Fee(FeeFractionFor(bet_match, call.checked[1].fee_fraction_int[1]), total_escrow)
        credits == CfdCredits(IF tx0_is_bull THEN bet_match.backward_quantity
                              ELSE bet_match.forward_quantity,
                              total_escrow - fee, call.checked[1].value[1],
                              bet_match.initial_value, bet_match.leverage)
    IN  [bull_address |-> IF tx0_is_bull THEN bet_match.tx0_address ELSE bet_match.tx1_address,
         bear_address |-> IF tx0_is_bull THEN bet_match.tx1_address ELSE bet_match.tx0_address,
         fee |-> fee, escrow_less_fee |-> total_escrow - fee,
         bull_credit |-> credits.bull_credit, bear_credit |-> credits.bear_credit]

\* the bet match was liquidated for one side: the side gained winnings, the
\* other side nothing, the feed the fees, and the resolution says so
Liquidated(i, t, status, bull_credit, bear_credit) ==
    /\ bet_matches[i].status = status
    /\ Gain(t.bull_address) = bull_credit
    /\ Gain(t.bear_address) = bear_credit
    /\ Gain(call.source) = NewFees
    /\ NewResolutionsOf(bet_matches[i])
           = <<Resolution([block_index |-> block_index], bet_matches[i], Some(FALSE),
                          Some(bull_credit), Some(bear_credit), "None", <<>>, t.fee)>>

\* C19: for a pending contract for difference and a valid broadcast with a
\* value of 0 or more, whatever the deadline: when the rounded bull_credit is
\* at least escrow_less_fee the bull is credited exactly escrow_less_fee and
\* the bear nothing; otherwise when it is 0 or less the bear is credited
\* exactly escrow_less_fee and the bull nothing; in both cases the feed is
\* credited the fee, a resolution with settled = false is written and the
\* status becomes "settled: liquidated for bull" or "... for bear"
C19_Liquidation ==
    \A i \in PendingCfds :
        \A t \in {Terms(call.before.bet_matches[i])} :
            IF t.bull_credit >= t.escrow_less_fee
            THEN Liquidated(i, t, "settled: liquidated for bull", t.escrow_less_fee, 0)
            ELSE IF t.bull_credit <= 0
            THEN Liquidated(i, t, "settled: liquidated for bear", 0, t.escrow_less_fee)
            ELSE TRUE


\* the bet match was settled: both sides gained their credits, the feed the
\* fees, and the resolution says so
SettledAtDeadline(i, t) ==
    /\ bet_matches[i].status = "settled"
    /\ Gain(t.bull_address) = t.bull_credit
    /\ Gain(t.bear_address) = t.bear_credit
    /\ Gain(call.source) = NewFees
    /\ NewResolutionsOf(bet_matches[i])
           = <<Resolution([block_index |-> block_index], bet_matches[i], Some(TRUE),
                          Some(t.bull_credit), Some(t.bear_credit), "None", <<>>, t.fee)>>

\* the bet match is pending as before, without credit, fee or resolution
LeftPending(i, t) ==
    /\ bet_matches[i] = call.before.bet_matches[i]
    /\ Gain(t.bull_address) = 0
    /\ Gain(t.bear_address) = 0
    /\ Gain(call.source) = NewFees
    /\ NewResolutionsOf(bet_matches[i]) = <<>>

\* C20: a pending contract for difference that a valid broadcast with a value
\* of 0 or more does not liquidate is settled exactly when the timestamp of
\* the broadcast is at least the deadline: below the deadline it stays
\* pending with no credit, fee or resolution; at or after it both sides are
\* credited their computed credits, the feed the fee, a resolution with
\* settled = true is written and the status becomes "settled"
C20_SettledAtDeadline ==
    \A i \in PendingCfds :
        \A t \in {Terms(call.before.bet_matches[i])} :
            (0 < t.bull_credit /\ t.bull_credit < t.escrow_less_fee) =>
                IF call.checked[1].timestamp >= call.before.bet_matches[i].deadline
                THEN SettledAtDeadline(i, t)
                ELSE LeftPending(i, t)

\* a broadcast below the deadline left the contract for difference pending,
\* and the next broadcast of the feed, at the deadline, settled it
C20_Witness ==
    /\ Len(broadcasts) = 2
    /\ broadcasts[1].status = "valid"
    /\ broadcasts[1].source = call.source
    /\ broadcasts[1].value = Some(ValueDen + 1)
    /\ \E i \in PendingCfds :
           /\ broadcasts[1].timestamp < bet_matches[i].deadline
           /\ call.checked[1].timestamp >= bet_matches[i].deadline
           /\ bet_matches[i].status = "settled"
           /\ Gain(bet_matches[i].tx0_address) > 0
           /\ Gain(bet_matches[i].tx1_address) > 0


---------------------------------------------------------------------------
(* Replay: a node parses a stream of transactions and block boundaries on   *)
(* a fresh ledger; a second node parses the same stream on a fresh ledger   *)
(* and may be restarted between any two of them.  The first node's final    *)
(* tables are kept for the comparison.                                      *)

\* transactions and block boundaries in a stream
MaxJournal == 3

\* the flag tables of the replay: every flag of both engines at its latest
\* setting, or at its earliest
ReplayFlagTables ==
    {d @@ b :
        d \in {f \in FlagTables :
                 /\ f.dispenser_origin_permission_extended = f.dispenser_parsing_validation
                 /\ f.dispenser_must_be_created_by_source = f.dispenser_parsing_validation
                 /\ f.oracle_dispensers = f.dispenser_parsing_validation
                 /\ (f.dispenser_close_delay = CloseDelay) = f.dispenser_parsing_validation
                 /\ (f.max_refills = MaxRefills) = f.dispenser_parsing_validation},
        b \in {f \in BroadcastFlagTables :
                 /\ f.broadcast_pack_text = f.taproot_support
                 /\ f.max_fee_fraction = f.taproot_support
                 /\ f.options_require_memo = f.taproot_support
                 /\ f.broadcast_invalid_check = f.taproot_support
                 /\ f.inmutable_fee_fraction = f.taproot_support}}

\* what the stream holds: A opens a dispenser, opens one on the empty
\* address E, closes; payments to A and to E; a block boundary; F broadcasts
\* a settling value at the deadline and the value -2
ReplayInputs ==
    {[kind |-> "dispenser", source |-> "A", message |-> m] :
        m \in {Message(<<1, 2, 1>>, STATUS_OPEN, <<>>),
               Message(<<1, 1, 1>>, STATUS_OPEN_EMPTY_ADDRESS, address_pack("E")),
               Message(<<0, 0, 0>>, STATUS_CLOSED, <<>>)}}
    \cup {[kind |-> "payment", destination |-> a, amount |-> 1] : a \in {"A", "E"}}
    \cup {[kind |-> "block"]}
    \cup {[kind |-> "broadcast", source |-> "F", message |-> Payload("F", f)] :
            f \in {Fields(2, ValueDen + 1, 0, <<>>), Fields(3, (-2) * ValueDen, 0, <<>>)}}

\* every table of the ledger, and the exception that ended the parsing
LedgerTables ==
    [balances |-> balances, dispensers |-> dispensers, dispenser_refills |-> dispenser_refills,
     dispenses |-> dispenses, broadcasts |-> broadcasts, addresses |-> addresses,
     bets |-> bets, bet_matches |-> bet_matches,
     bet_match_resolutions |-> bet_match_resolutions, block_index |-> block_index,
     tx_index |-> tx_index, raised |-> raised]

\* a fresh ledger: A and B hold XCP, bets on the feeds are pending and open
FreshLedger ==
    [balances |-> (<<"A", XCP>> :> InitialBalance) @@ (<<"B", XCP>> :> 1),
     dispensers |-> <<>>, dispenser_refills |-> <<>>, dispenses |-> <<>>,
     broadcasts |-> <<>>, addresses |-> <<>>, bets |-> InitialBets,
     bet_matches |-> InitialBetMatches, bet_match_resolutions |-> <<>>,
     block_index |-> FirstBlock, tx_index |-> FirstBroadcastTx, raised |-> "none"]

InitReplay ==
    /\ parsing_mempool = FALSE
    /\ NoAPIServer
    /\ flags \in ReplayFlagTables
    /\ oracle \in OracleFeeds
    /\ balances = FreshLedger.balances
    /\ dispensers = FreshLedger.dispensers
    /\ dispenser_refills = FreshLedger.dispenser_refills
    /\ dispenses = FreshLedger.dispenses
    /\ broadcasts = FreshLedger.broadcasts
    /\ addresses = FreshLedger.addresses
    /\ bets = FreshLedger.bets
    /\ bet_matches = FreshLedger.bet_matches
    /\ bet_match_resolutions = FreshLedger.bet_match_resolutions
    /\ block_index = FreshLedger.block_index
    /\ tx_index = FreshLedger.tx_index
    /\ raised = FreshLedger.raised
    /\ dispensable = {}
    /\ call = [stage |-> "recording", journal |-> <<>>]

\* blocks.parse_tx hands a dispenser message to dispenser.parse
ReplayDispenser(in) ==
    /\ \E r \in {parse_unpacked(Transaction(in.source, NoOutput),
                    UnpackedMessages[in.message][enabled("dispenser_origin_permission_extended")])} :
        /\ tx_index' = IF r.status = "valid" THEN tx_index + 1 ELSE tx_index
        /\ balances' = r.balances
        /\ dispensers' = r.dispensers
        /\ dispenser_refills' = r.dispenser_refills
        /\ dispensable' = r.dispensable
        /\ raised' = r.raised
    /\ UNCHANGED <<block_index, dispenses, broadcast_tables>>

\* a bitcoin payment: a dispense when is_dispensable says so, nothing otherwise
ReplayPayment(in) ==
    /\ \E firing \in {IF is_dispensable(in.destination, in.amount)
                     THEN DispenseTarget(in.destination, in.amount) ELSE <<>>} :
        IF firing # <<>> /\ DispenseQuantity(firing[1], in.amount) > 0
        THEN Dispensed(firing[1], DispenseQuantity(firing[1], in.amount))
        ELSE UNCHANGED <<dispensers, balances, dispenses>>
    /\ UNCHANGED <<block_index, tx_index, dispenser_refills, dispensable, raised,
                   broadcast_tables>>

\* a block boundary with its scheduled closes
ReplayBlock ==
    /\ block_index' = block_index + 1
    /\ \E r \in {close_pending(block_index + 1,
                               get_value_by_block_index("dispenser_close_delay"))} :
        /\ balances' = r.balances
        /\ dispensers' = r.dispensers
    /\ UNCHANGED <<tx_index, dispenser_refills, dispenses, dispensable, raised,
                   broadcast_tables>>

\* blocks.parse_tx hands a broadcast to broadcast.parse
ReplayBroadcast(in) ==
    /\ \E r \in {broadcast_parse(BroadcastTx(in.source), in.message)} :
        /\ tx_index' = tx_index + 1
        /\ broadcasts' = r.broadcasts
        /\ addresses' = r.addresses
        /\ balances' = r.balances
        /\ bet_matches' = r.bet_matches
        /\ bets' = r.bets
        /\ bet_match_resolutions' = r.bet_match_resolutions
        /\ raised' = r.raised
    /\ UNCHANGED <<block_index, dispensers, dispenser_refills, dispenses, dispensable>>

\* the node parses one element of the stream
ReplayStep(in) ==
    /\ raised = "none"
    /\ UNCHANGED outside_ledger
    /\ UNCHANGED <<flags, oracle>>
    /\ \/ in.kind = "dispenser" /\ ReplayDispenser(in)
       \/ in.kind = "payment" /\ ReplayPayment(in)
       \/ in.kind = "block" /\ ReplayBlock
       \/ in.kind = "broadcast" /\ ReplayBroadcast(in)

\* the first node parses the next element of the stream
Record ==
    /\ call.stage = "recording"
    /\ Len(call.journal) < MaxJournal
    /\ \E in \in ReplayInputs :
        /\ ReplayStep(in)
        /\ call' = [call EXCEPT !.journal = Append(@, in)]

\* the stream ends: the first node's tables are kept, and the second node
\* starts on a fresh ledger
StartReplay ==
    /\ call.stage = "recording"
    /\ call' = [stage |-> "replaying", journal |-> call.journal, position |-> 1,
                first |-> LedgerTables]
    /\ balances' = FreshLedger.balances
    /\ dispensers' = FreshLedger.dispensers
    /\ dispenser_refills' = FreshLedger.dispenser_refills
    /\ dispenses' = FreshLedger.dispenses
    /\ broadcasts' = FreshLedger.broadcasts
    /\ addresses' = FreshLedger.addresses
    /\ bets' = FreshLedger.bets
    /\ bet_matches' = FreshLedger.bet_matches
    /\ bet_match_resolutions' = FreshLedger.bet_match_resolutions
    /\ block_index' = FreshLedger.block_index
    /\ tx_index' = FreshLedger.tx_index
    /\ raised' = FreshLedger.raised
    /\ dispensable' = {}
    /\ UNCHANGED outside_ledger
    /\ UNCHANGED <<flags, oracle>>

\* the second node parses the next element of the stream
Replay ==
    /\ call.stage = "replaying"
    /\ call.position <= Len(call.journal)
    /\ ReplayStep(call.journal[call.position])
    /\ call' = [call EXCEPT !.position = @ + 1]

\* ledger.markets.get_all_dispensables(db): the addresses of the dispensers table
get_all_dispensables == {dispensers[i].source : i \in DOMAIN dispensers}

\* the second node is restarted: DispensableCache.__init__ reads the ledger
Restart ==
    /\ call.stage = "replaying"
    /\ dispensable' = get_all_dispensables
    /\ UNCHANGED outside_ledger
    /\ UNCHANGED <<flags, block_index, tx_index, balances, dispensers, dispenser_refills,
                   dispenses, oracle, raised, call, broadcast_tables>>

NextReplay == Record \/ StartReplay \/ Replay \/ Restart

SpecReplay == InitReplay /\ [][NextReplay]_vars

\* the second node has parsed the whole stream
Replayed ==
    /\ call.stage = "replaying"
    /\ (call.position > Len(call.journal) \/ raised # "none")

---------------------------------------------------------------------------
(* Settlement of an Equal/NotEqual bet match *)

\* the bet matches that were pending Equal/NotEqual matches on the feed of a
\* valid broadcast with a value of 0 or more
PendingEquals ==
    IF call.stage = "broadcast parsed" /\ ParsedValid /\ call.checked[1].value # <<>>
       /\ call.checked[1].value[1] >= 0
    THEN {i \in DOMAIN call.before.bet_matches :
            /\ call.before.bet_matches[i].feed_address = call.source
            /\ call.before.bet_matches[i].status = "pending"
            /\ call.before.bet_matches[i].tx0_bet_type + call.before.bet_matches[i].tx1_bet_type
                   = BET_TYPE_ID.Equal + BET_TYPE_ID.NotEqual}
    ELSE {}

\* the terms of the bet match under the broadcast of the parse that ended
\* last: the sides by their bet types, the fee, the escrow less the fee, and
\* the side the value of the broadcast lets win
EqualTerms(bet_match) ==
    LET tx0_is_equal == bet_match.tx0_bet_type = BET_TYPE_ID.Equal
        total_escrow == bet_match.forward_quantity + bet_match.backward_quantity
        fee == Fee(FeeFractionFor(bet_match, call.checked[1].fee_fraction_int[1]), total_escrow)
        equal_address == IF tx0_is_equal THEN bet_match.tx0_address ELSE bet_match.tx1_address
        notequal_address == IF tx0_is_equal THEN bet_match.tx1_address
                            ELSE bet_match.tx0_address
        equal_wins == call.checked[1].value[1] = bet_match.target_value
    IN  [winner |-> IF equal_wins THEN "Equal" ELSE "NotEqual",
         status |-> IF equal_wins THEN "settled: for equal" ELSE "settled: for notequal",
         winner_address |-> IF equal_wins THEN equal_address ELSE notequal_address,
         loser_address |-> IF equal_wins THEN notequal_address ELSE equal_address,
         fee |-> fee, escrow_less_fee |-> total_escrow - fee]

\* the bet match was resolved for the winner: the winner gained the escrow
\* less the fee, the loser nothing, the feed the fees, and the resolution
\* names the winner
ResolvedForWinner(i, t) ==
    /\ bet_matches[i].status = t.status
    /\ Gain(t.winner_address) = t.escrow_less_fee
    /\ Gain(t.loser_address) = 0
    /\ Gain(call.source) = NewFees
    /\ NewResolutionsOf(bet_matches[i])
           = <<Resolution([block_index |-> block_index], bet_matches[i], <<>>, <<>>, <<>>,
                          t.winner, Some(t.escrow_less_fee), t.fee)>>

\* the bet match is pending as before, neither side gained and no resolution
\* was written for it
EqualLeftPending(i, t) ==
    /\ bet_matches[i] = call.before.bet_matches[i]
    /\ Gain(t.winner_address) = 0
    /\ Gain(t.loser_address) = 0
    /\ Gain(call.source) = NewFees
    /\ NewResolutionsOf(bet_matches[i]) = <<>>

\* C21: a pending Equal/NotEqual bet match is resolved by a valid broadcast
\* of its feed with a value of 0 or more exactly when the timestamp of the
\* broadcast is at least the deadline of the match; then the address of the
\* Equal side gains escrow_less_fee when the value equals target_value and
\* the address of the NotEqual side otherwise, the loser gains nothing, the
\* feed gains the fee and the resolution records the winner
C21_EqualNotEqual ==
    \A i \in PendingEquals :
        \A t \in {EqualTerms(call.before.bet_matches[i])} :
            IF call.checked[1].timestamp >= call.before.bet_matches[i].deadline
            THEN ResolvedForWinner(i, t)
            ELSE EqualLeftPending(i, t)


---------------------------------------------------------------------------
(* The order of the events of one broadcast *)

\* the bet matches the parse that ended last found pending and resolved
ResolvedNow ==
    {i \in DOMAIN bet_matches :
        /\ call.before.bet_matches[i].status = "pending"
        /\ bet_matches[i].status \notin {"pending", "dropped"}}

\* (tx1_index, tx0_index) of the first id is below that of the second
IdBefore(id, other) == id[2] < other[2] \/ (id[2] = other[2] /\ id[1] < other[1])

\* the events the parse that ended last journaled for the bet match
EventsOf(bet_match) ==
    SelectSeq(call.events, LAMBDA e : e.bet_match_id = make_id(bet_match))

\* the events of one bet match are the credits of its sides, the credit of
\* the fee to the feed, the resolution record and the status update
InMatchOrder(bet_match) ==
    LET s == EventsOf(bet_match)
        n == Len(s)
    IN  /\ n \in {4, 5}
        /\ \A k \in 1..(n - 3) :
               s[k].event = "CREDIT"
               /\ s[k].address \in {bet_match.tx0_address, bet_match.tx1_address}
        /\ s[n - 2].event = "CREDIT"
        /\ s[n - 2].address = bet_match.feed_address
        /\ s[n - 2].quantity = NewResolutionsOf(bet_match)[1].fee
        /\ s[n - 1].event = "BET_MATCH_RESOLUTION"
        /\ s[n] = [event |-> "BET_MATCH_UPDATE", bet_match_id |-> make_id(bet_match),
                   status |-> bet_match.status]

\* C22: the events one broadcast journals for the bet matches it resolves
\* come match by match in ascending (tx1_index, tx0_index) order, the
\* resolution rows are inserted in that order, every resolved bet match has
\* its events and no other has any, and the events of one match are its side
\* credits, the credit of the fee to feed_address, the BET_MATCH_RESOLUTION
\* record and the status update, in this order
C22_EventOrder ==
    ParseReturned =>
        /\ \A k, l \in DOMAIN call.events :
               (k < l /\ call.events[k].bet_match_id # call.events[l].bet_match_id) =>
                   IdBefore(call.events[k].bet_match_id, call.events[l].bet_match_id)
        /\ \A k, l \in DOMAIN NewResolutions :
               k < l => IdBefore(NewResolutions[k].bet_match_id, NewResolutions[l].bet_match_id)
        /\ \A i \in DOMAIN bet_matches :
               IF i \in ResolvedNow THEN InMatchOrder(bet_matches[i])
               ELSE EventsOf(bet_matches[i]) = <<>>

\* one broadcast at the deadline settled the contract for difference and
\* resolved both Equal/NotEqual matches; the bet match with the lowest
\* tx0_index was not the first
C22_Witness ==
    /\ ParseReturned
    /\ Cardinality(ResolvedNow) = 3
    /\ Len(call.events) = 13
    /\ \E k, l \in DOMAIN call.events :
           /\ k < l
           /\ call.events[k].bet_match_id[1] > call.events[l].bet_match_id[1]
    /\ \E i \in ResolvedNow : bet_matches[i].status = "settled"


---------------------------------------------------------------------------
(* The status of a dispenser row *)

\* the statuses a stored row may have
StoredStatuses == {STATUS_OPEN, STATUS_CLOSING, STATUS_CLOSED}

\* one step of the dispenser state machine, seen from the rows: no row is
\* removed, a new row is Open, a Closed row stays as it is, and a status
\* changes only from Open to Closed in a close without delay, from Open to
\* Closing in a close with a delay, and from Closing to Closed at a block
\* boundary that has reached close_block_index
StatusStep ==
    /\ Len(dispensers') >= Len(dispensers)
    /\ \A i \in DOMAIN dispensers' : dispensers'[i].status \in StoredStatuses
    /\ \A i \in (Len(dispensers) + 1)..Len(dispensers') : dispensers'[i].status = STATUS_OPEN
    /\ \A i \in DOMAIN dispensers :
           /\ dispensers[i].status = STATUS_CLOSED => dispensers'[i] = dispensers[i]
           /\ dispensers[i].status # dispensers'[i].status =>
                  \/ /\ dispensers[i].status = STATUS_OPEN
                     /\ dispensers'[i].status = STATUS_CLOSED
                     /\ get_value_by_block_index("dispenser_close_delay") = 0
                     /\ tx_index' = tx_index + 1
                  \/ /\ dispensers[i].status = STATUS_OPEN
                     /\ dispensers'[i].status = STATUS_CLOSING
                     /\ get_value_by_block_index("dispenser_close_delay") > 0
                     /\ tx_index' = tx_index + 1
                  \/ /\ dispensers[i].status = STATUS_CLOSING
                     /\ dispensers'[i].status = STATUS_CLOSED
                     /\ block_index' = block_index + 1
                     /\ dispensers[i].close_block_index <= block_index'

\* the address a dispenser message acts on
ActionAddress(s, u) == IF u.action_address = None THEN s ELSE u.action_address

\* the open messages of the model, as parse unpacks them
OpensUnpacked ==
    {UnpackedMessages[m][enabled("dispenser_origin_permission_extended")] :
        m \in OpenMessages \cup OpenEmptyAddressMessages}

\* the address has a Closed dispenser for the asset and no Open one
OnlyClosedAt(address, asset) ==
    /\ get_dispensers({STATUS_CLOSED}, address, asset) # <<>>
    /\ get_dispensers({STATUS_OPEN}, address, asset) = <<>>

\* parse left the rows it found as they were and appended one Open row at
\* the address
NewRowAt(r, address, asset) ==
    /\ Len(r.dispensers) = Len(dispensers) + 1
    /\ SubSeq(r.dispensers, 1, Len(dispensers)) = dispensers
    /\ r.dispensers[Len(r.dispensers)].status = STATUS_OPEN
    /\ r.dispensers[Len(r.dispensers)].source = address
    /\ r.dispensers[Len(r.dispensers)].asset = asset

\* in this state every open that parse accepts for an address whose
\* dispenser for the asset is Closed inserts a new row
Reopens ==
    \A s \in Addresses, u \in OpensUnpacked :
        \A r \in {parse_unpacked(Transaction(s, NoOutput), u)} :
            (r.status = "valid" /\ OnlyClosedAt(ActionAddress(s, u), u.asset)) =>
                NewRowAt(r, ActionAddress(s, u), u.asset)

\* C23: every stored dispenser row has status Open, Closing or Closed; a
\* status changes only along Open -> Closed (close with close_delay = 0),
\* Open -> Closing (close with close_delay > 0) and Closing -> Closed
\* (scheduled close); a Closed row never changes again, and an open accepted
\* later for the same address and asset inserts a new row
C23_StatusMachine == [][StatusStep]_vars /\ []Reopens

\* a dispenser went from Open over Closing to Closed, and an open for its
\* address and asset is accepted and inserts a new row
C23_Witness ==
    \E i \in DOMAIN dispensers :
        /\ dispensers[i].status = STATUS_CLOSED
        /\ dispensers[i].last_status_tx_source # None
        /\ \E s \in Addresses, u \in OpensUnpacked :
               /\ ActionAddress(s, u) = dispensers[i].source
               /\ parse_unpacked(Transaction(s, NoOutput), u).status = "valid"
               /\ NewRowAt(parse_unpacked(Transaction(s, NoOutput), u), dispensers[i].source,
                           u.asset)


---------------------------------------------------------------------------
(* Opening a dispenser at the address of the source *)

\* what parse unpacks from a message of the model at this height
UnpackedNow(m) == UnpackedMessages[m][enabled("dispenser_origin_permission_extended")]

\* the transactions of the model whose message unpacks to the given status,
\* each with what parse unpacks from it
UnpackedWithStatus(dispenser_status) ==
    {<<in[2], UnpackedNow(in[1])>> :
        in \in {i \in TransactionInputs :
                  /\ UnpackedNow(i[1]).status = "valid"
                  /\ UnpackedNow(i[1]).dispenser_status = dispenser_status}}

\* the row parse appended is the Open dispenser the message describes, at
\* the address, with the whole escrow remaining and the sender as origin
OpenedRow(row, tx, u, address) ==
    /\ row.tx_hash = tx.tx_hash
    /\ row.source = address
    /\ row.asset = u.asset
    /\ row.give_quantity = u.give_quantity
    /\ row.escrow_quantity = u.escrow_quantity
    /\ row.satoshirate = u.mainchainrate
    /\ row.status = STATUS_OPEN
    /\ row.give_remaining = u.escrow_quantity
    /\ row.dispense_count = 0
    /\ row.origin = tx.source

\* parse left every dispenser row as it was and appended one row
OneRowAppended(r) ==
    /\ Len(r.dispensers) = Len(dispensers) + 1
    /\ SubSeq(r.dispensers, 1, Len(dispensers)) = dispensers
    /\ r.dispenser_refills = dispenser_refills

\* an open without an oracle that validate has nothing to say against: the
\* source holds the escrow and has neither an Open nor a Closing dispenser
PlainOpen(s, u) ==
    /\ u.status = "valid"
    /\ u.oracle_address = None
    /\ u.asset # BTC
    /\ ValidateQuantities(u.give_quantity, u.escrow_quantity, u.mainchainrate, STATUS_OPEN) = <<>>
    /\ debit_ok(balances, s, u.asset, u.escrow_quantity)
    /\ get_dispensers({STATUS_OPEN, STATUS_CLOSING}, s, u.asset) = <<>>

\* C24: an Open message (status 0) that parse accepts from an address with no
\* Open dispenser for the asset debits exactly escrow_quantity from the
\* source, which held at least that much, and inserts exactly one dispenser
\* row, at the source, with status Open, give_remaining = escrow_quantity,
\* dispense_count = 0 and origin = source; no other balance, dispenser row or
\* refill record changes; and parse accepts every such message that names no
\* oracle when the source holds the escrow
C24_OpenSameAddress ==
    \A s \in Addresses, in \in UnpackedWithStatus(STATUS_OPEN) :
        \A r \in {parse_unpacked(Transaction(s, in[1]), in[2])} :
            /\ (r.status = "valid" /\ get_dispensers({STATUS_OPEN}, s, in[2].asset) = <<>>) =>
                   /\ debit_ok(balances, s, in[2].asset, in[2].escrow_quantity)
                   /\ r.balances = debit(balances, s, in[2].asset, in[2].escrow_quantity)
                   /\ OneRowAppended(r)
                   /\ OpenedRow(r.dispensers[Len(r.dispensers)], Transaction(s, in[1]), in[2], s)
            /\ PlainOpen(s, in[2]) => r.status = "valid"

\* A opened a dispenser with escrow 2 at its own address: the row holds 2,
\* A holds 2 less, and no refill is recorded
C24_Witness ==
    /\ Len(dispensers) = 1
    /\ dispensers[1].source = "A"
    /\ dispensers[1].origin = "A"
    /\ dispensers[1].status = STATUS_OPEN
    /\ dispensers[1].escrow_quantity = 2
    /\ dispensers[1].give_remaining = 2
    /\ dispensers[1].dispense_count = 0
    /\ balances[<<"A", XCP>>] = InitialBalance - 2
    /\ dispenser_refills = <<>>

---------------------------------------------------------------------------
(* Opening a dispenser at an empty address *)

\* the balances are the same in both tables but for the given rows
SameBalancesBut(after, before, keys) ==
    /\ DOMAIN before \subseteq DOMAIN after
    /\ DOMAIN after \subseteq DOMAIN before \cup keys
    /\ \A k \in DOMAIN before \ keys : after[k] = before[k]

\* what the address holds of the asset in a table of balances
Held(bal, address, asset) ==
    IF <<address, asset>> \in DOMAIN bal THEN bal[<<address, asset>>] ELSE 0

\* C25: an OpenEmptyAddress message that parse accepts and that opens a
\* dispenser at an action_address other than the tx source journals exactly
\* three balance events, each for escrow_quantity of the asset, in this
\* order: DEBIT of the tx source, CREDIT of action_address, DEBIT of
\* action_address; afterwards the source holds escrow_quantity less,
\* action_address holds what it held before, no other balance has changed,
\* and the one new dispenser row has source = action_address, origin = tx
\* source and give_remaining = escrow_quantity
C25_OpenEmptyAddress ==
    \A s \in Addresses, in \in UnpackedWithStatus(STATUS_OPEN_EMPTY_ADDRESS) :
        \A r \in {parse_unpacked(Transaction(s, in[1]), in[2])} :
            (/\ r.status = "valid"
             /\ ActionAddress(s, in[2]) # s
             /\ get_dispensers({STATUS_OPEN}, ActionAddress(s, in[2]), in[2].asset) = <<>>) =>
                /\ r.events =
                       <<BalanceEvent("DEBIT", s, in[2].asset, in[2].escrow_quantity),
                         BalanceEvent("CREDIT", ActionAddress(s, in[2]), in[2].asset,
                                      in[2].escrow_quantity),
                         BalanceEvent("DEBIT", ActionAddress(s, in[2]), in[2].asset,
                                      in[2].escrow_quantity)>>
                /\ Held(r.balances, s, in[2].asset)
                       = Held(balances, s, in[2].asset) - in[2].escrow_quantity
                /\ Held(r.balances, ActionAddress(s, in[2]), in[2].asset)
                       = Held(balances, ActionAddress(s, in[2]), in[2].asset)
                /\ SameBalancesBut(r.balances, balances,
                                   {<<s, in[2].asset>>, <<ActionAddress(s, in[2]), in[2].asset>>})
                /\ OneRowAppended(r)
                /\ OpenedRow(r.dispensers[Len(r.dispensers)], Transaction(s, in[1]), in[2],
                             ActionAddress(s, in[2]))

\* A opened a dispenser with escrow 2 at E: the row is at E with origin A and
\* holds 2, A holds 2 less, and E has a balance row with nothing on it
C25_Witness ==
    /\ Len(dispensers) = 1
    /\ dispensers[1].source = "E"
    /\ dispensers[1].origin = "A"
    /\ dispensers[1].status = STATUS_OPEN
    /\ dispensers[1].escrow_quantity = 2
    /\ dispensers[1].give_remaining = 2
    /\ balances[<<"A", XCP>>] = InitialBalance - 2
    /\ <<"E", XCP>> \in DOMAIN balances
    /\ balances[<<"E", XCP>>] = 0

---------------------------------------------------------------------------
(* The empty-address rule *)

\* the address has a balance row, whatever the quantity on it
HasBalanceHistory(address) == \E k \in DOMAIN balances : k[1] = address

\* the address holds something of some asset
HoldsSomething(address) == \E k \in DOMAIN balances : k[1] = address /\ balances[k] > 0

\* the sender is the origin of the Open dispenser of the asset at the
\* address, or of a Closed dispenser there, and the extended permission of
\* the origin is active
OriginAt(s, address, asset) ==
    /\ enabled("dispenser_origin_permission_extended")
    /\ \E i \in DOMAIN dispensers :
           /\ dispensers[i].source = address
           /\ dispensers[i].origin = s
           /\ \/ dispensers[i].status = STATUS_OPEN /\ dispensers[i].asset = asset
              \/ dispensers[i].status = STATUS_CLOSED

\* one of the reasons is among the problems parse ended with
RejectedFor(r, reasons) == \E i \in DOMAIN r.problems : r.problems[i] \in reasons

\* the reasons of the tests validate makes before the empty-address rule
EarlierReasons ==
    {"address doesn't have the asset",
     "address doesn't have enough balance",
     "dispenser must be created by source",
     "address has already a dispenser about to close, no action can be taken until it closes"}

\* parse changed no table
NothingChanged(r) ==
    /\ r.balances = balances
    /\ r.dispensers = dispensers
    /\ r.dispenser_refills = dispenser_refills
    /\ r.events = <<>>

\* C26 as stated: under every setting of the flags an OpenEmptyAddress
\* message that targets a foreign address with a balance row is rejected
\* with "cannot open on another address if it has any balance history",
\* creates no dispenser and moves no funds
C26_BalanceHistory ==
    \A s \in Addresses, in \in UnpackedWithStatus(STATUS_OPEN_EMPTY_ADDRESS) :
        \A r \in {parse_unpacked(Transaction(s, in[1]), in[2])} :
            (ActionAddress(s, in[2]) # s /\ HasBalanceHistory(ActionAddress(s, in[2]))) =>
                /\ RejectedFor(r, {"cannot open on another address if it has any balance history"})
                /\ NothingChanged(r)

\* C26 amended: with dispenser_parsing_validation active, an OpenEmptyAddress
\* message that targets a foreign address with a balance row, even one with
\* quantity 0, is rejected and changes nothing, unless
\* dispenser_origin_permission_extended is active and the sender is the
\* origin of the Open dispenser of the asset at that address or of a Closed
\* dispenser there; the reason is "cannot open on another address if it has
\* any balance history" unless validate stopped at an earlier test (the
\* balance of the sender, dispenser_must_be_created_by_source, a Closing
\* dispenser at the address).  Under every setting of the flags the message
\* inserts no dispenser row at a foreign address that holds a positive
\* balance.
C26_BalanceHistoryValidated ==
    \A s \in Addresses, in \in UnpackedWithStatus(STATUS_OPEN_EMPTY_ADDRESS) :
        \A r \in {parse_unpacked(Transaction(s, in[1]), in[2])} :
            /\ (/\ enabled("dispenser_parsing_validation")
                /\ ActionAddress(s, in[2]) # s
                /\ HasBalanceHistory(ActionAddress(s, in[2]))
                /\ ~OriginAt(s, ActionAddress(s, in[2]), in[2].asset)) =>
                   /\ r.status = "invalid: problems"
                   /\ NothingChanged(r)
                   /\ \/ RejectedFor(r, {"cannot open on another address if it has any balance history"})
                      \/ RejectedFor(r, EarlierReasons)
            /\ (ActionAddress(s, in[2]) # s /\ HoldsSomething(ActionAddress(s, in[2]))) =>
                   r.dispensers \in {dispensers} \cup
                       {[dispensers EXCEPT ![i] = r.dispensers[i]] : i \in DOMAIN dispensers}

\* E has a balance row with nothing on it, left by A's dispenser there, and
\* B, which holds the escrow, is refused an empty-address open at E for the
\* balance history of E
C26_Witness ==
    /\ enabled("dispenser_parsing_validation")
    /\ <<"E", XCP>> \in DOMAIN balances
    /\ balances[<<"E", XCP>>] = 0
    /\ \E in \in UnpackedWithStatus(STATUS_OPEN_EMPTY_ADDRESS) :
           /\ ActionAddress("B", in[2]) = "E"
           /\ ~OriginAt("B", "E", in[2].asset)
           /\ debit_ok(balances, "B", in[2].asset, in[2].escrow_quantity)
           /\ RejectedFor(parse_unpacked(Transaction("B", in[1]), in[2]),
                          {"cannot open on another address if it has any balance history"})

---------------------------------------------------------------------------
(* Who may refill a dispenser *)

\* the address may add to the dispenser row: it is the address of the
\* dispenser, or its origin while the extended permission is active
Refiller(address, row) ==
    \/ address = row.source
    \/ enabled("dispenser_origin_permission_extended") /\ address = row.origin

\* in one step, an Open row whose give_remaining grows has been refilled by
\* one message: the step appends the refill record of that message, which
\* names the row, and the sender it records may refill the row
RefillStep ==
    \A i \in DOMAIN dispensers :
        (/\ i \in DOMAIN dispensers'
         /\ dispensers[i].status = STATUS_OPEN
         /\ dispensers'[i].give_remaining > dispensers[i].give_remaining) =>
            /\ Len(dispenser_refills') = Len(dispenser_refills) + 1
            /\ tx_index' = tx_index + 1
            /\ dispenser_refills'[Len(dispenser_refills')].tx_index = tx_index
            /\ dispenser_refills'[Len(dispenser_refills')].dispenser_tx_hash = dispensers[i].tx_hash
            /\ dispenser_refills'[Len(dispenser_refills')].destination = dispensers[i].source
            /\ Refiller(dispenser_refills'[Len(dispenser_refills')].source, dispensers[i])
            /\ dispensers'[i].give_remaining =
                   dispensers[i].give_remaining
                   + dispenser_refills'[Len(dispenser_refills')].dispense_quantity

\* in this state an open or refill message for an address with an Open
\* dispenser, sent by an address that may not refill it, changes nothing
ForeignRefills ==
    \A s \in Addresses,
       in \in UnpackedWithStatus(STATUS_OPEN) \cup UnpackedWithStatus(STATUS_OPEN_EMPTY_ADDRESS) :
        \A r \in {parse_unpacked(Transaction(s, in[1]), in[2])} :
            \A i \in DOMAIN dispensers :
                (/\ dispensers[i].status = STATUS_OPEN
                 /\ dispensers[i].source = ActionAddress(s, in[2])
                 /\ dispensers[i].asset = in[2].asset
                 /\ ~Refiller(s, dispensers[i])) =>
                    /\ r.status # "valid"
                    /\ NothingChanged(r)

\* C27: the give_remaining of an Open dispenser at address A is increased
\* only by a message whose tx source is A, or whose tx source is the
\* dispenser's origin while dispenser_origin_permission_extended is active;
\* an open or refill message from any other address changes neither that row
\* nor any other and debits nobody
C27_RefillPermission == [][RefillStep]_vars /\ []ForeignRefills

\* A refilled the dispenser it opened at E, and B, which holds the escrow, is
\* refused a refill of it
C27_Witness ==
    /\ Len(dispensers) = 1
    /\ dispensers[1].status = STATUS_OPEN
    /\ dispensers[1].source = "E"
    /\ dispensers[1].origin = "A"
    /\ dispensers[1].give_remaining = 2
    /\ Len(dispenser_refills) = 1
    /\ dispenser_refills[1].source = "A"
    /\ dispenser_refills[1].destination = "E"
    /\ \E in \in UnpackedWithStatus(STATUS_OPEN_EMPTY_ADDRESS) :
           /\ ActionAddress("B", in[2]) = "E"
           /\ in[2].give_quantity = dispensers[1].give_quantity
           /\ in[2].mainchainrate = dispensers[1].satoshirate
           /\ debit_ok(balances, "B", in[2].asset, in[2].escrow_quantity)
           /\ parse_unpacked(Transaction("B", in[1]), in[2]).status # "valid"

---------------------------------------------------------------------------
(* The limit on refills *)

\* the refill records that name the dispenser row
RefillsOf(row) == SelectSeq(dispenser_refills, LAMBDA f : f.dispenser_tx_hash = row.tx_hash)

\* the message is a refill of the row: an open for its address and asset
\* with its rate and give_quantity, while the row is Open
RefillOf(s, u, row) ==
    /\ row.status = STATUS_OPEN
    /\ row.source = ActionAddress(s, u)
    /\ row.asset = u.asset
    /\ row.satoshirate = u.mainchainrate
    /\ row.give_quantity = u.give_quantity

\* parse refilled the row: it holds the escrow more and one more record names it
Refilled(r, u, i) ==
    /\ r.status = "valid"
    /\ r.dispensers[i].give_remaining = dispensers[i].give_remaining + u.escrow_quantity
    /\ Len(r.dispenser_refills) = Len(dispenser_refills) + 1
    /\ r.dispenser_refills[Len(r.dispenser_refills)].dispenser_tx_hash = dispensers[i].tx_hash

\* C28: with dispenser_parsing_validation active and max_refills = N > 0 no
\* dispenser has more than N refill records, and a refill message for a
\* dispenser that has N is rejected and changes nothing, with the reason
\* "the dispenser reached its maximum refilling" when the sender holds the
\* escrow; with max_refills = 0 a refill (status 0, no oracle) from the
\* address of the dispenser, holding the escrow, is accepted whatever the
\* number of refills recorded
C28_MaxRefills ==
    /\ (enabled("dispenser_parsing_validation") /\ get_value_by_block_index("max_refills") > 0) =>
           \A i \in DOMAIN dispensers :
               Len(RefillsOf(dispensers[i])) <= get_value_by_block_index("max_refills")
    /\ \A s \in Addresses,
          in \in UnpackedWithStatus(STATUS_OPEN) \cup UnpackedWithStatus(STATUS_OPEN_EMPTY_ADDRESS) :
           \A r \in {parse_unpacked(Transaction(s, in[1]), in[2])} :
               \A i \in DOMAIN dispensers :
                   /\ (/\ enabled("dispenser_parsing_validation")
                       /\ get_value_by_block_index("max_refills") > 0
                       /\ RefillOf(s, in[2], dispensers[i])
                       /\ Len(RefillsOf(dispensers[i])) >= get_value_by_block_index("max_refills")) =>
                          /\ r.status = "invalid: problems"
                          /\ NothingChanged(r)
                          /\ debit_ok(balances, s, in[2].asset, in[2].escrow_quantity) =>
                                 RejectedFor(r, {"the dispenser reached its maximum refilling"})
                   /\ (/\ get_value_by_block_index("max_refills") = 0
                       /\ RefillOf(s, in[2], dispensers[i])
                       /\ in[2].dispenser_status = STATUS_OPEN
                       /\ in[2].oracle_address = None
                       /\ debit_ok(balances, s, in[2].asset, in[2].escrow_quantity)) =>
                          Refilled(r, in[2], i)

\* with the limit at MaxRefills, A's dispenser has that many refill records
\* and A, which holds the escrow, is refused one more for that reason
C28_Witness ==
    /\ enabled("dispenser_parsing_validation")
    /\ get_value_by_block_index("max_refills") = MaxRefills
    /\ Len(dispensers) = 1
    /\ dispensers[1].source = "A"
    /\ dispensers[1].status = STATUS_OPEN
    /\ Len(RefillsOf(dispensers[1])) = MaxRefills
    /\ \E in \in UnpackedWithStatus(STATUS_OPEN) :
           /\ RefillOf("A", in[2], dispensers[1])
           /\ debit_ok(balances, "A", in[2].asset, in[2].escrow_quantity)
           /\ RejectedFor(parse_unpacked(Transaction("A", in[1]), in[2]),
                          {"the dispenser reached its maximum refilling"})

---------------------------------------------------------------------------
(* Closing a dispenser *)

\* the tables differ in the row i of the dispensers only
OnlyRowChanged(r, i) ==
    /\ Len(r.dispensers) = Len(dispensers)
    /\ \A j \in DOMAIN dispensers : j # i => r.dispensers[j] = dispensers[j]
    /\ r.dispenser_refills = dispenser_refills

\* the row is the Open dispenser a close of the sender may address: the one
\* at the sender's address, or under the extended permission the one at the
\* address named, opened by the sender
Closable(row, s, u) ==
    /\ row.status = STATUS_OPEN
    /\ row.asset = u.asset
    /\ \/ row.source = s
       \/ /\ enabled("dispenser_origin_permission_extended")
          /\ row.source = u.action_address
          /\ row.origin = s

\* a close without delay: the sender is credited what the row held, the row
\* is Closed and holds nothing
ClosedNow(r, tx, i) ==
    /\ r.events = <<BalanceEvent("CREDIT", tx.source, dispensers[i].asset,
                                 dispensers[i].give_remaining)>>
    /\ Held(r.balances, tx.source, dispensers[i].asset)
           = Held(balances, tx.source, dispensers[i].asset) + dispensers[i].give_remaining
    /\ SameBalancesBut(r.balances, balances, {<<tx.source, dispensers[i].asset>>})
    /\ r.dispensers[i] = [dispensers[i] EXCEPT !.status = STATUS_CLOSED, !.give_remaining = 0]

\* a close with a delay: no balance changes, the row is Closing and keeps
\* what it holds, and the close is scheduled and remembered
CloseScheduled(r, tx, i, close_delay) ==
    /\ r.events = <<>>
    /\ r.balances = balances
    /\ r.dispensers[i] = [dispensers[i] EXCEPT !.status = STATUS_CLOSING,
                                               !.close_block_index = block_index + close_delay,
                                               !.last_status_tx_hash = tx.tx_hash,
                                               !.last_status_tx_source = tx.source]
    /\ r.dispensers[i].give_remaining = dispensers[i].give_remaining

\* C29: a close message that parse accepts addresses one Open dispenser; with
\* dispenser_close_delay = 0 it credits exactly the give_remaining of that
\* dispenser to the source of the closing transaction and sets status Closed
\* and give_remaining 0; with dispenser_close_delay > 0 it changes no
\* balance, sets status Closing, close_block_index = block_index +
\* close_delay, last_status_tx_hash and last_status_tx_source to the closing
\* transaction's hash and source, and leaves give_remaining as it is; no
\* other row changes; and parse accepts the close, naming no oracle, that
\* an address sends for its own Open dispenser
C29_Close ==
    \A s \in Addresses, in \in UnpackedWithStatus(STATUS_CLOSED) :
        \A r \in {parse_unpacked(Transaction(s, in[1]), in[2])} :
            /\ r.status = "valid" =>
                   \E i \in DOMAIN dispensers :
                       /\ Closable(dispensers[i], s, in[2])
                       /\ OnlyRowChanged(r, i)
                       /\ IF get_value_by_block_index("dispenser_close_delay") = 0
                          THEN ClosedNow(r, Transaction(s, in[1]), i)
                          ELSE CloseScheduled(r, Transaction(s, in[1]), i,
                                              get_value_by_block_index("dispenser_close_delay"))
            /\ (/\ ActionAddress(s, in[2]) = s
                /\ in[2].oracle_address = None
                /\ get_dispensers({STATUS_OPEN}, s, in[2].asset) # <<>>
                /\ get_dispensers({STATUS_CLOSING}, s, in[2].asset) = <<>>) =>
                   r.status = "valid"

\* A closed, with a delay, the dispenser it had opened at E: the row is
\* Closing, still holds its escrow, is due CloseDelay blocks later and
\* remembers A; A still lacks the escrow
C29_Witness ==
    /\ get_value_by_block_index("dispenser_close_delay") = CloseDelay
    /\ Len(dispensers) = 1
    /\ dispensers[1].source = "E"
    /\ dispensers[1].origin = "A"
    /\ dispensers[1].status = STATUS_CLOSING
    /\ dispensers[1].give_remaining = 2
    /\ dispensers[1].close_block_index = block_index + CloseDelay
    /\ dispensers[1].last_status_tx_source = "A"
    /\ dispensers[1].last_status_tx_hash = 2
    /\ balances[<<"A", XCP>>] = InitialBalance - 2

---------------------------------------------------------------------------
(* The scheduled close *)

\* the rows a step takes from Closing to Closed
ClosedByStep == {i \in DOMAIN dispensers :
                    /\ dispensers[i].status = STATUS_CLOSING
                    /\ dispensers'[i].status = STATUS_CLOSED}

\* what the rows closed by the step held for the address, of the asset
Released(address, asset) ==
    SeqSum([i \in DOMAIN dispensers |->
               IF /\ i \in ClosedByStep
                  /\ dispensers[i].last_status_tx_source = address
                  /\ dispensers[i].asset = asset
               THEN dispensers[i].give_remaining ELSE 0])

\* one step, seen from the Closing rows: a row leaves Closing only at a
\* block boundary that has reached its close_block_index, and then it is
\* Closed and holds nothing; the block boundary closes every row that is
\* due, credits each address what the rows closed for it held at that
\* moment, and changes no other row and no other balance
ScheduledCloseStep ==
    /\ Len(dispensers') >= Len(dispensers)
    /\ \A i \in DOMAIN dispensers :
           dispensers[i].status = STATUS_CLOSING =>
               /\ dispensers'[i].status \in {STATUS_CLOSING, STATUS_CLOSED}
               /\ dispensers'[i].status = STATUS_CLOSED =>
                      /\ block_index' = block_index + 1
                      /\ dispensers[i].close_block_index <= block_index'
                      /\ dispensers'[i] = [dispensers[i] EXCEPT !.status = STATUS_CLOSED,
                                                                !.give_remaining = 0]
    /\ block_index' # block_index =>
           /\ Len(dispensers') = Len(dispensers)
           /\ \A i \in DOMAIN dispensers :
                  /\ (dispensers[i].status = STATUS_CLOSING
                      /\ dispensers[i].close_block_index <= block_index') => i \in ClosedByStep
                  /\ i \notin ClosedByStep => dispensers'[i] = dispensers[i]
           /\ DOMAIN balances \subseteq DOMAIN balances'
           /\ \A k \in DOMAIN balances' :
                  balances'[k] = Held(balances, k[1], k[2]) + Released(k[1], k[2])
           /\ dispenser_refills' = dispenser_refills

\* C30: no dispenser moves from Closing to Closed at a block below its
\* close_block_index; the scheduled close credits exactly the give_remaining
\* the dispenser holds at that moment, once, to last_status_tx_source, sets
\* its give_remaining 0 and its status Closed, and changes no other
\* dispenser and no other balance
C30_ScheduledClose == [][ScheduledCloseStep]_vars

\* A's dispenser of two units was closed with a delay, dispensed one unit
\* while Closing, and was closed at its close_block_index: A was credited the
\* one unit left, the buyer holds the other
C30_Witness ==
    /\ Len(dispensers) = 1
    /\ dispensers[1].status = STATUS_CLOSED
    /\ dispensers[1].escrow_quantity = 2
    /\ dispensers[1].give_remaining = 0
    /\ dispensers[1].dispense_count = 1
    /\ dispensers[1].last_status_tx_source = "A"
    /\ dispensers[1].close_block_index = block_index
    /\ balances[<<"A", XCP>>] = InitialBalance - 1
    /\ <<Buyer, XCP>> \in DOMAIN balances
    /\ balances[<<Buyer, XCP>>] = 1

\* a dispenser is Closing, one block has passed since its close, and its
\* close_block_index is not reached
ClosingNotDue ==
    \E i \in DOMAIN dispensers :
        /\ dispensers[i].status = STATUS_CLOSING
        /\ block_index > FirstBlock
        /\ block_index < dispensers[i].close_block_index

---------------------------------------------------------------------------
(* The scheduled close under protocol changes.  dispenser_close_delay is a  *)
(* protocol value read by height: close_pending reads it at the height of   *)
(* the block it runs for, the close that scheduled the row read it at its   *)
(* own height.                                                              *)

\* the last height of a behaviour
LastBlock == FirstBlock + CloseDelay

\* the block boundary at a height where dispenser_close_delay may have
\* another value: close_pending runs with the value of the new height
ProtocolBlock ==
    /\ raised = "none"
    /\ block_index < LastBlock
    /\ block_index' = block_index + 1
    /\ \E block_delay \in {0, CloseDelay} :
        /\ flags' = [flags EXCEPT !.dispenser_close_delay = block_delay]
        /\ \E r \in {close_pending(block_index + 1, block_delay)} :
            /\ balances' = r.balances
            /\ dispensers' = r.dispensers
    /\ UNCHANGED outside_ledger
    /\ UNCHANGED <<tx_index, dispenser_refills, dispenses, dispensable, oracle, raised,
                   outside_dispenser>>

NextSchedule == ParseDispenser \/ Dispense \/ ProtocolBlock

\* blocks keep being processed
SpecSchedule == Init /\ [][NextSchedule]_vars /\ WF_vars(ProtocolBlock)

\* the row i is Closing and its close_block_index is a height of the behaviour
ClosingDue(i) ==
    /\ i \in DOMAIN dispensers
    /\ dispensers[i].status = STATUS_CLOSING
    /\ dispensers[i].close_block_index <= LastBlock

\* the row i is Closed and holds nothing
ClosedEmpty(i) ==
    /\ i \in DOMAIN dispensers
    /\ dispensers[i].status = STATUS_CLOSED
    /\ dispensers[i].give_remaining = 0

C31_ClosedUnderPositiveDelay ==
    \A i \in 1..MaxTx :
        (ClosingDue(i) /\ [](get_value_by_block_index("dispenser_close_delay") > 0))
            ~> ClosedEmpty(i)

---------------------------------------------------------------------------
(* A dispenser about to close *)

\* every open, refill and close message of the model, as parse unpacks it
DispenserRequests ==
    UnpackedWithStatus(STATUS_OPEN) \cup UnpackedWithStatus(STATUS_OPEN_EMPTY_ADDRESS)
    \cup UnpackedWithStatus(STATUS_CLOSED)

\* a dispenser of the asset at the address is Closing
ClosingAt(address, asset) == get_dispensers({STATUS_CLOSING}, address, asset) # <<>>

\* C32 as stated: while a dispenser for (address, asset) is Closing, every
\* open, refill and close message for that pair is invalid and changes no
\* dispenser row and no balance
C32_ClosingBlocks ==
    \A s \in Addresses, in \in DispenserRequests :
        \A r \in {parse_unpacked(Transaction(s, in[1]), in[2])} :
            ClosingAt(ActionAddress(s, in[2]), in[2].asset) =>
                /\ r.status # "valid"
                /\ r.raised = "none"
                /\ NothingChanged(r)

\* C32 amended: with dispenser_parsing_validation active, while a dispenser
\* for (address, asset) is Closing every open, refill and close message for
\* that pair is invalid and changes no dispenser row and no balance, so that
\* no second dispenser is opened for the pair until the Closing one is
\* Closed; a sender that holds the escrow is told "address has already a
\* dispenser about to close, no action can be taken until it closes", unless
\* the message is a close for another address by a sender that is not the
\* origin of the Closing dispenser.
C32_ClosingBlocksValidated ==
    \A s \in Addresses, in \in DispenserRequests :
        \A r \in {parse_unpacked(Transaction(s, in[1]), in[2])} :
            ClosingAt(ActionAddress(s, in[2]), in[2].asset) =>
                /\ enabled("dispenser_parsing_validation") =>
                       /\ r.status # "valid"
                       /\ r.raised = "none"
                       /\ NothingChanged(r)
                /\ (/\ enabled("dispenser_parsing_validation")
                    /\ debit_ok(balances, s, in[2].asset, in[2].escrow_quantity)
                    /\ in[2].dispenser_status = STATUS_CLOSED =>
                           \E i \in DOMAIN dispensers :
                               /\ dispensers[i].status = STATUS_CLOSING
                               /\ dispensers[i].source = ActionAddress(s, in[2])
                               /\ dispensers[i].asset = in[2].asset
                               /\ s \in {dispensers[i].source, dispensers[i].origin}) =>
                       RejectedFor(r, {"address has already a dispenser about to close, no action can be taken until it closes"})

\* A's dispenser is Closing and A, which holds the escrow, is refused an
\* open for the same asset because of it
C32_Witness ==
    /\ enabled("dispenser_parsing_validation")
    /\ ClosingAt("A", XCP)
    /\ \E in \in UnpackedWithStatus(STATUS_OPEN) :
           /\ in[2].asset = XCP
           /\ debit_ok(balances, "A", XCP, in[2].escrow_quantity)
           /\ RejectedFor(parse_unpacked(Transaction("A", in[1]), in[2]),
                          {"address has already a dispenser about to close, no action can be taken until it closes"})

---------------------------------------------------------------------------
(* A debit that fails *)

\* the two statuses parse gives after a DebitError
InsufficientFunds == {"invalid: insufficient funds", "insufficient funds"}

\* the open messages of the model: same-address and empty-address opens and
\* the refills they are when a dispenser is Open
OpenRequests ==
    UnpackedWithStatus(STATUS_OPEN) \cup UnpackedWithStatus(STATUS_OPEN_EMPTY_ADDRESS)

\* nothing stands between the message and the debit: no oracle is named,
\* the target of an empty-address open holds nothing, and a dispenser that
\* is Open at the target is one the sender may refill with this message
ReachesDebit(s, u) ==
    /\ u.oracle_address = None
    /\ LET existing == get_dispensers({STATUS_OPEN}, ActionAddress(s, u), u.asset)
       IN  IF existing = <<>>
           THEN u.dispenser_status = STATUS_OPEN_EMPTY_ADDRESS =>
                    ~HoldsSomething(ActionAddress(s, u))
           ELSE /\ RefillOf(s, u, existing[1])
                /\ Refiller(s, existing[1])

\* C33: when the debit of a same-address open, an empty-address open or a
\* refill fails, parse ends with an insufficient-funds status without
\* raising, and the ledger is as before the transaction: no dispenser row
\* inserted or updated, no refill record, no balance changed, no balance
\* event of the three-leg move journaled, no address added to the
\* dispensable cache
C33_DebitFails ==
    \A s \in Addresses, in \in OpenRequests :
        \A r \in {parse_unpacked(Transaction(s, in[1]), in[2])} :
            /\ r.status \in InsufficientFunds =>
                   /\ ~debit_ok(balances, s, in[2].asset, in[2].escrow_quantity)
                   /\ r.raised = "none"
                   /\ NothingChanged(r)
                   /\ r.dispensable = dispensable
            /\ (/\ ~enabled("dispenser_parsing_validation")
                /\ ~debit_ok(balances, s, in[2].asset, in[2].escrow_quantity)
                /\ ReachesDebit(s, in[2])) =>
                   r.status \in InsufficientFunds

\* without validation, A's dispenser is Open, A holds less than two units,
\* and its refill by two ends with insufficient funds
C33_Witness ==
    /\ ~enabled("dispenser_parsing_validation")
    /\ get_dispensers({STATUS_OPEN}, "A", XCP) # <<>>
    /\ \E in \in UnpackedWithStatus(STATUS_OPEN) :
           /\ RefillOf("A", in[2], get_dispensers({STATUS_OPEN}, "A", XCP)[1])
           /\ in[2].escrow_quantity = 2
           /\ ~debit_ok(balances, "A", XCP, 2)
           /\ parse_unpacked(Transaction("A", in[1]), in[2]).status = "insufficient funds"


---------------------------------------------------------------------------
(* is_dispensable as a function of the dispensers table, the oracle's last  *)
(* price, the DispensableCache and the payment.  The tables drawn are the   *)
(* ones block and mempool parsing leave at one address: up to two rows of   *)
(* different assets, Open, Closing or Closed, with a fixed rate or priced   *)
(* by the oracle, whose last broadcast may carry the value 0.               *)

\* a second asset escrowed at the same address
OtherAsset == "A1"

\* satoshirate of a drawn row: the price of two units, and 2.00 in fiat
DispensableRates == {2, 200}

\* the oracle has broadcast: its last price is 0 or 1
DispensableFeeds ==
    {[has_price |-> TRUE, last_price |-> p, last_fee |-> 0] : p \in {0, 1}}

\* the row a valid open by A left at E as the i-th transaction, as it stands
\* after its dispenses and closes
DrawnDispenser(i, status, oracle_address, satoshirate) ==
    [tx_index |-> i,
     tx_hash |-> i,
     source |-> "E",
     asset |-> IF i = 1 THEN XCP ELSE OtherAsset,
     give_quantity |-> 1,
     escrow_quantity |-> 1,
     satoshirate |-> satoshirate,
     status |-> status,
     give_remaining |-> IF status = STATUS_CLOSED THEN 0 ELSE 1,
     oracle_address |-> oracle_address,
     origin |-> "A",
     dispense_count |-> 0,
     close_block_index |-> IF status = STATUS_OPEN THEN 0 ELSE FirstBlock + CloseDelay,
     last_status_tx_hash |-> IF status = STATUS_OPEN THEN 0 ELSE 3,
     last_status_tx_source |-> IF status = STATUS_OPEN THEN None ELSE "A"]

DrawnDispensers(i) ==
    {DrawnDispenser(i, status, oracle_address, satoshirate) :
        status \in {STATUS_OPEN, STATUS_CLOSING, STATUS_CLOSED},
        oracle_address \in {None, OracleAddress},
        satoshirate \in DispensableRates}

DrawnTables ==
    {<<>>} \cup {<<d>> : d \in DrawnDispensers(1)}
           \cup {<<d, e>> : d \in DrawnDispensers(1), e \in DrawnDispensers(2)}

\* while blocks are parsed the cache knows every address of the table; a
\* preview of the mempool may have left rows the cache does not know
InitDispensable ==
    /\ parsing_mempool \in BOOLEAN
    /\ NoAPIServer
    /\ flags \in {f \in FlagTables : /\ f.dispenser_parsing_validation
                                     /\ f.dispenser_origin_permission_extended
                                     /\ f.dispenser_must_be_created_by_source
                                     /\ f.oracle_dispensers
                                     /\ f.dispenser_close_delay = CloseDelay
                                     /\ f.max_refills = MaxRefills}
    /\ oracle \in DispensableFeeds
    /\ block_index = FirstBlock
    /\ tx_index = 3
    /\ balances = (<<"A", XCP>> :> InitialBalance) @@ (<<"B", XCP>> :> 1)
    /\ dispensers \in DrawnTables
    /\ dispenser_refills = <<>>
    /\ dispenses = <<>>
    /\ dispensable \in {{}, {"E"}}
    /\ (~parsing_mempool /\ dispensers # <<>>) => "E" \in dispensable
    /\ raised = "none"
    /\ call = NoCall
    /\ NoBroadcastTables

\* a bitcoin output of amount satoshis to the destination is looked at
CheckDispensable ==
    /\ \E destination \in {"B", "E"}, amount \in PaymentAmounts :
        call' = [stage |-> "is_dispensable", destination |-> destination, amount |-> amount,
                 result |-> is_dispensable(destination, amount)]
    /\ UNCHANGED <<flags, block_index, tx_index, balances, dispenser_tables, raised,
                   broadcast_tables>>
    /\ UNCHANGED outside_ledger

NextDispensable == CheckDispensable

SpecDispensable == InitDispensable /\ [][NextDispensable]_vars

\* the dispenser fires on the payment, as the claim defines firing
Fires(d, amount) ==
    IF d.oracle_address = None
    THEN amount >= d.satoshirate
    ELSE LET last == get_oracle_last_price(d.oracle_address)
         IN  /\ d.satoshirate # 0
             /\ last.last_price # 0
             /\ amount * last.last_price * 100 >= d.satoshirate

\* the Open and Closing dispensers at the address
OpenOrClosingAt(address) ==
    {i \in DOMAIN dispensers : /\ dispensers[i].source = address
                               /\ dispensers[i].status \in {STATUS_OPEN, STATUS_CLOSING}}

\* C34: for a destination the DispensableCache knows, is_dispensable is true
\* if and only if at least one Open or Closing dispenser at the destination
\* fires; a dispenser with zero last_price or fiatrate only fails to fire
\* itself.
C34_FiresIffDispensable ==
    (call.stage = "is_dispensable" /\ could_be_dispensable(call.destination)) =>
        (call.result <=> \E i \in OpenOrClosingAt(call.destination) :
                             Fires(dispensers[i], call.amount))

\* what holds instead: is_dispensable is true if and only if a dispenser
\* fires and no oracle-priced dispenser before it in the table has a zero
\* last_price or fiatrate
C34_FiresUnlessZeroBefore ==
    (call.stage = "is_dispensable" /\ could_be_dispensable(call.destination)) =>
        (call.result <=> \E i \in OpenOrClosingAt(call.destination) :
            /\ Fires(dispensers[i], call.amount)
            /\ \A j \in OpenOrClosingAt(call.destination) :
                (j < i /\ dispensers[j].oracle_address # None) =>
                    /\ dispensers[j].satoshirate # 0
                    /\ get_oracle_last_price(dispensers[j].oracle_address).last_price # 0)


---------------------------------------------------------------------------
(* The DispensableCache while blocks are parsed (parsing_mempool is off in  *)
(* Spec): parse adds the address of every row it inserts, and               *)
(* DispensableCache has no method that removes one.                         *)

\* what a scan of the dispensers at the destination decides without the cache
ScanDispenses(destination, amount) ==
    ScanDispensers(get_dispensers_at({STATUS_OPEN, STATUS_CLOSING}, destination), amount)

\* every address with an Open or Closing row is known to the cache, and the
\* cache filters out no payment the scan would dispense
CacheCoversDispensers ==
    /\ \A i \in DOMAIN dispensers :
        dispensers[i].status \in {STATUS_OPEN, STATUS_CLOSING} =>
            could_be_dispensable(dispensers[i].source)
    /\ \A destination \in Addresses, amount \in PaymentAmounts :
        ScanDispenses(destination, amount) => is_dispensable(destination, amount)

\* C35: in every state reached by block parsing every address that has an
\* Open or Closing dispenser row is in the dispensable cache, so the cache
\* never filters out a payment that a scan of the dispensers would dispense;
\* an address once in the cache is never removed.
C35_CacheCoversDispensers ==
    /\ []CacheCoversDispensers
    /\ [][dispensable \subseteq dispensable']_vars

\* a dispenser opened at an empty address is Closing, and a payment to the
\* address is still let through by the cache
C35_Witness ==
    /\ ~parsing_mempool
    /\ \E i \in DOMAIN dispensers :
        /\ dispensers[i].status = STATUS_CLOSING
        /\ dispensers[i].source = "E"
        /\ could_be_dispensable("E")
        /\ \E amount \in PaymentAmounts : is_dispensable("E", amount)


---------------------------------------------------------------------------
(* The preview of the mempool: the same parse and the same is_dispensable   *)
(* with CurrentState().parsing_mempool() set, on top of the ledger the      *)
(* blocks left (no dispenser yet, or the dispenser A opened at its own      *)
(* address, which the cache knows).                                         *)

InitMempool ==
    /\ parsing_mempool = TRUE
    /\ NoAPIServer
    /\ flags \in FlagTables
    /\ oracle \in OracleFeeds
    /\ block_index = FirstBlock
    /\ InitCodecLedger
    /\ dispenser_refills = <<>>
    /\ dispenses = <<>>
    /\ raised = "none"
    /\ call = NoCall
    /\ NoBroadcastTables

NextMempool == ParseDispenser \/ Dispense

SpecMempool == InitMempool /\ [][NextMempool]_vars

\* C36: while the parsing_mempool flag is set the dispensable cache is not
\* consulted: the result of is_dispensable(destination, amount) is determined
\* by the dispenser rows alone and is the same whatever addresses the cache
\* contains.
C36_CacheNotConsulted ==
    parsing_mempool =>
        \A destination \in Addresses, amount \in PaymentAmounts :
            is_dispensable(destination, amount) <=> ScanDispenses(destination, amount)


---------------------------------------------------------------------------
(* The API server (lib/api/apiserver.py).                                   *)
(*                                                                          *)
(* A path or a rule is the sequence of its segments: "/v2/blocks/last" is   *)
(* <<"v2", "blocks", "last">>, and a trailing slash is an empty last        *)
(* segment, so "/v2/" is <<"v2", "">> and "/" is <<"">>.  A url is a path   *)
(* and a query string.  The route table (routes.ROUTES) is not among the    *)
(* sources: the requests of the model are one for each kind of rule that    *)
(* apiserver.py tells apart.                                                *)

\* entries BLOCK_CACHE may hold (1000 in the source)
MAX_BLOCK_CACHE_SIZE == 2

\* request handlers the WSGI server runs at the same time
MaxHandlers == 2

\* blocks the API watcher parses in one behaviour
MaxParsed == 1

\* the handlers of the server
Handlers == DOMAIN handlers

\* path.startswith(prefix), for a prefix that ends with a slash or with a
\* whole segment
startswith(path, prefix) ==
    /\ Len(path) >= Len(prefix)
    /\ \A i \in 1..Len(prefix) :
        path[i] = prefix[i] \/ (i = Len(prefix) /\ prefix[i] = "")

\* "/segment/" in rule
contains(rule, segment) == \E i \in 1..(Len(rule) - 1) : rule[i] = segment

\* "healthz" in rule
mentions(rule, word) == \E i \in 1..Len(rule) : rule[i] = word

Request(method, rule, path, query, function) ==
    [method |-> method, rule |-> rule, path |-> path, query |-> query,
     function |-> function]

\* a GET request of a rule without parameters
Get(rule, query, function) == Request("GET", rule, rule, query, function)

Requests ==
    {Get(<<"v2", "">>, "", "api_root"),
     Get(<<"v2", "assets">>, "", "get_valid_assets"),
     Get(<<"v2", "assets">>, "show_unconfirmed=true", "get_valid_assets"),
     Get(<<"v2", "blocks", "last">>, "", "get_last_block"),
     Request("GET", <<"v2", "blocks", "<int:block_index>">>, <<"v2", "blocks", "1">>, "",
             "get_block_by_height"),
     Request("GET", <<"v2", "addresses", "<address>", "compose", "dispenser">>,
             <<"v2", "addresses", "A", "compose", "dispenser">>, "", "compose_dispenser"),
     Get(<<"v2", "mempool", "events">>, "", "get_all_mempool_events"),
     Get(<<"healthz">>, "", "check_server_health"),
     Request("POST", <<"v2", "bitcoin", "transactions">>, <<"v2", "bitcoin", "transactions">>,
             "", "sendrawtransaction"),
     Get(<<"">>, "", "redirect_to_api_v1"),
     Request("POST", <<"v1", "">>, <<"v1", "">>, "", "redirect_to_api_v1"),
     Request("OPTIONS", <<"v2", "assets">>, <<"v2", "assets">>, "", "get_valid_assets")}

\* request.url
url(request) == <<request.path, request.query>>

\* CurrentState().current_block_index() in the API process follows the block
\* the watcher parsed last
current_block_index == last_block_parsed

\* CurrentState().current_block_time() against time.time(), as a request
\* finds it: no block time, a block younger than 60 seconds, an older one
BlockTimes == {"None", "recent", "old"}

is_server_ready(block_time) ==
    IF backend_height = <<>> THEN FALSE
    ELSE IF current_block_index \in {backend_height[1], backend_height[1] - 1} THEN TRUE
    ELSE IF block_time = "None" THEN FALSE
    ELSE IF block_time = "recent" THEN TRUE
    ELSE FALSE

is_cachable(request) ==
    IF api_config.DISABLE_API_CACHE \/ request.method = "POST" THEN FALSE
    ELSE IF \E no_cachable \in {"compose", "mempool"} : contains(request.rule, no_cachable)
    THEN FALSE
    ELSE ~mentions(request.rule, "healthz")

return_result_if_not_ready(rule) ==
    \/ rule = <<"v2", "">>
    \/ rule = <<"">>
    \/ startswith(rule, <<"v1">>)
    \/ startswith(rule, <<"rpc">>)

\* variant: no key carries the block index
cache_keyUrlOnly(request, block) == [block |-> <<>>, url |-> url(request)]

\* execute_api_function: "cache everything for one block ... except for blocks"
cache_key(request, block) ==
    IF startswith(request.path, <<"v2", "blocks", "">>)
       /\ ~startswith(request.path, <<"v2", "blocks", "last">>)
    THEN [block |-> <<>>, url |-> url(request)]
    ELSE [block |-> <<block>>, url |-> url(request)]

\* "show_unconfirmed=true" in request.url
asks_unconfirmed(request) == request.query = "show_unconfirmed=true"

\* a handler that waits for a request
Idle ==
    [pc |-> "idle", request |-> Get(<<"">>, "", "none"), current_block_index |-> 0,
     key |-> [block |-> <<>>, url |-> <<>>], result |-> [kind |-> "none"],
     called |-> FALSE, hit |-> FALSE, ready |-> TRUE, response |-> "none"]

\* key in BLOCK_CACHE
InCache(key) == \E i \in DOMAIN BLOCK_CACHE : BLOCK_CACHE[i].key = key

\* BLOCK_CACHE[key]
Cached(key) == BLOCK_CACHE[CHOOSE i \in DOMAIN BLOCK_CACHE : BLOCK_CACHE[i].key = key].result

\* BLOCK_CACHE[key] = result: a new key goes to the end of the OrderedDict, a
\* key that is there keeps its place
Stored(key, result) ==
    IF InCache(key)
    THEN [i \in DOMAIN BLOCK_CACHE |->
            IF BLOCK_CACHE[i].key = key THEN [key |-> key, result |-> result]
            ELSE BLOCK_CACHE[i]]
    ELSE Append(BLOCK_CACHE, [key |-> key, result |-> result])

\* if len(BLOCK_CACHE) > MAX_BLOCK_CACHE_SIZE: BLOCK_CACHE.popitem(last=False)
Evicted ==
    IF Len(BLOCK_CACHE) > MAX_BLOCK_CACHE_SIZE THEN Tail(BLOCK_CACHE) ELSE BLOCK_CACHE

\* what a route function returns or raises: rows, None, a requests.Response
\* of the API v1 proxy, one of the exceptions handle_route lists, another one
RouteOutcomes(request) ==
    IF request.function = "redirect_to_api_v1"
    THEN {"proxied", "ValueError", "Exception"}
    ELSE {"rows", "None", "ValueError", "Exception"}

\* the end of handle_route for a result execute_api_function returned; the
\* clean-up of the result, inject_details and to_json may raise
Responses(result) ==
    IF result.kind = "proxied" THEN {"proxied", "500"}
    ELSE IF result.kind = "None" THEN {"404"}
    ELSE {"200", "500"}

\* variant: the readiness of the server is not looked at
NotReadyNever(request, block_time) == FALSE

\* handle_route 311-319: the second 503
NotReady(request, block_time) ==
    /\ ~api_config.FORCE
    /\ ~is_server_ready(block_time)
    /\ ~return_result_if_not_ready(request.rule)
    /\ ~api_config.API_ONLY

\* handle_route up to the call of execute_api_function: the responses it may
\* give there, and "execute" when it goes on to execute_api_function.
\* api_root, prepare_args and the logging may raise: ValueError and
\* TypeError of prepare_args end in 400, anything else in 500
Answers(request, block_time) ==
    IF request.method = "OPTIONS" THEN {"204"}
    ELSE IF ~api_config.FORCE /\ backend_height = <<>> THEN {"503"}
    ELSE IF NotReady(request, block_time) THEN {"503"}
    ELSE IF request.rule = <<"v2", "">> THEN {"200", "500"}
    ELSE {"400", "500", "execute"}

\* what a request finds: FORCE is set or is_server_ready() is true
Readiness == {api_config.FORCE \/ is_server_ready(block_time) : block_time \in BlockTimes}

\* a block time under which is_server_ready() has the value
BlockTimeOf(ready) ==
    CHOOSE block_time \in BlockTimes : (api_config.FORCE \/ is_server_ready(block_time)) = ready

\* the requests clients send while several handlers run: GET requests of
\* v2 routes
ThreadedRequests ==
    {r \in Requests : /\ r.method = "GET"
                      /\ r.query = ""
                      /\ r.path \in {<<"v2", "assets">>, <<"v2", "blocks", "last">>,
                                      <<"v2", "blocks", "1">>, <<"v2", "mempool", "events">>}}

Offered == IF Len(handlers) = 1 THEN Requests ELSE ThreadedRequests

\* a request reaches handle_route; when no response is given at once,
\* execute_api_function starts: the last parsed block is read and the key built
HandleRoute(h) ==
    /\ handlers[h].pc \in {"idle", "done"}
    /\ \E request \in Offered, ready \in Readiness :
        \E answer \in Answers(request, BlockTimeOf(ready)) :
            handlers' = [handlers EXCEPT ![h] =
                IF answer = "execute"
                THEN [Idle EXCEPT !.request = request, !.ready = ready, !.pc = "get",
                                  !.current_block_index = last_block_parsed,
                                  !.key = cache_key(request, last_block_parsed)]
                ELSE [Idle EXCEPT !.request = request, !.ready = ready, !.pc = "done",
                                  !.response = answer]]
    /\ UNCHANGED <<api_config, last_block_parsed, backend_height, BLOCK_CACHE,
                   server_ready_value, api_process, ledger>>

\* execute_api_function: if cache_key in BLOCK_CACHE
CacheGet(h) ==
    /\ handlers[h].pc = "get"
    /\ handlers' = [handlers EXCEPT ![h].pc = IF InCache(handlers[h].key) THEN "hit" ELSE "call"]
    /\ UNCHANGED <<api_config, last_block_parsed, backend_height, BLOCK_CACHE,
                   server_ready_value, api_process, ledger>>

\* execute_api_function: result = BLOCK_CACHE[cache_key]; return result.  An
\* entry evicted since the test raises KeyError, which handle_route answers
\* with "503"
CacheHit(h) ==
    /\ handlers[h].pc = "hit"
    /\ IF InCache(handlers[h].key)
       THEN \E result \in {Cached(handlers[h].key)} :
               \E response \in Responses(result) :
                   handlers' = [handlers EXCEPT ![h] =
                       [@ EXCEPT !.pc = "done", !.hit = TRUE, !.result = result,
                                 !.response = response]]
       ELSE handlers' = [handlers EXCEPT ![h] =
               [@ EXCEPT !.pc = "done", !.response = "503", !.key = Idle.key]]
    /\ UNCHANGED <<api_config, last_block_parsed, backend_height, BLOCK_CACHE,
                   server_ready_value, api_process, ledger>>

\* whether execute_api_function stores the result
Storable(request, result) ==
    /\ result.kind # "None"
    /\ is_cachable(request)
    /\ request.function # "redirect_to_api_v1"
    /\ ~startswith(request.path, <<"v2", "mempool", "">>)
    /\ ~asks_unconfirmed(request)

\* execute_api_function: the route function is called
CallRoute(h) ==
    /\ handlers[h].pc = "call"
    /\ \E outcome \in RouteOutcomes(handlers[h].request) :
        IF outcome = "ValueError"
        THEN handlers' = [handlers EXCEPT ![h] =
                [@ EXCEPT !.pc = "done", !.called = TRUE, !.response = "400", !.key = Idle.key]]
        ELSE IF outcome = "Exception"
        THEN handlers' = [handlers EXCEPT ![h] =
                [@ EXCEPT !.pc = "done", !.called = TRUE, !.response = "503", !.key = Idle.key]]
        ELSE \E result \in {[kind |-> outcome, request |-> handlers[h].request,
                            block |-> handlers[h].current_block_index]} :
                IF Storable(handlers[h].request, result)
                THEN handlers' = [handlers EXCEPT ![h] =
                        [@ EXCEPT !.pc = "put", !.called = TRUE, !.result = result]]
                ELSE \E response \in Responses(result) :
                        handlers' = [handlers EXCEPT ![h] =
                            [@ EXCEPT !.pc = "done", !.called = TRUE, !.key = Idle.key,
                                      !.response = response]]
    /\ UNCHANGED <<api_config, last_block_parsed, backend_height, BLOCK_CACHE,
                   server_ready_value, api_process, ledger>>

\* execute_api_function: BLOCK_CACHE[cache_key] = result
CachePut(h) ==
    /\ handlers[h].pc = "put"
    /\ BLOCK_CACHE' = Stored(handlers[h].key, handlers[h].result)
    /\ handlers' = [handlers EXCEPT ![h].pc = "pop"]
    /\ UNCHANGED <<api_config, last_block_parsed, backend_height,
                   server_ready_value, api_process, ledger>>

\* execute_api_function: the eviction, and the end of handle_route
CacheEvict(h) ==
    /\ handlers[h].pc = "pop"
    /\ BLOCK_CACHE' = Evicted
    /\ \E response \in Responses(handlers[h].result) :
        handlers' = [handlers EXCEPT ![h] =
            [@ EXCEPT !.pc = "done", !.response = response, !.key = Idle.key,
                      !.result = Idle.result]]
    /\ UNCHANGED <<api_config, last_block_parsed, backend_height,
                   server_ready_value, api_process, ledger>>

\* the API watcher has parsed the next block into the state DB
WatcherParsesBlock ==
    /\ last_block_parsed < FirstBlock + MaxParsed
    /\ last_block_parsed' = last_block_parsed + 1
    /\ UNCHANGED <<api_config, backend_height, BLOCK_CACHE, handlers,
                   server_ready_value, api_process, ledger>>

\* the main process publishes the height of the backend
BackendHeightKnown ==
    /\ backend_height = <<>>
    /\ backend_height' \in {<<FirstBlock>>, <<FirstBlock + 3>>}
    /\ UNCHANGED <<api_config, last_block_parsed, BLOCK_CACHE, handlers,
                   server_ready_value, api_process, ledger>>

\* the ledger process next to the API server: it is not looked at
InitAPILedger ==
    /\ parsing_mempool = FALSE
    /\ flags \in {f \in FlagTables : /\ f.dispenser_parsing_validation
                                     /\ f.dispenser_origin_permission_extended
                                     /\ f.dispenser_must_be_created_by_source
                                     /\ f.oracle_dispensers
                                     /\ f.dispenser_close_delay = CloseDelay
                                     /\ f.max_refills = MaxRefills}
    /\ oracle \in {o \in OracleFeeds : o.has_price}
    /\ block_index = FirstBlock
    /\ tx_index = 1
    /\ balances = (<<"A", XCP>> :> InitialBalance) @@ (<<"B", XCP>> :> 1)
    /\ dispensers = <<>>
    /\ dispenser_refills = <<>>
    /\ dispenses = <<>>
    /\ dispensable = {}
    /\ raised = "none"
    /\ call = NoCall
    /\ NoBroadcastTables

\* a server that is ready (server_ready_value 1) with one handler waiting,
\* under every configuration
InitAPI ==
    /\ api_config \in [FORCE : BOOLEAN, API_ONLY : BOOLEAN, DISABLE_API_CACHE : BOOLEAN]
    /\ last_block_parsed = FirstBlock
    /\ backend_height = <<>>
    /\ BLOCK_CACHE = <<>>
    /\ handlers = <<Idle>>
    /\ server_ready_value = 1
    /\ api_process = [pc |-> "none"]
    /\ InitAPILedger

\* a server started with --force whose WSGI server runs MaxHandlers threads
InitAPIThreads ==
    /\ api_config = [FORCE |-> TRUE, API_ONLY |-> FALSE, DISABLE_API_CACHE |-> FALSE]
    /\ last_block_parsed = FirstBlock
    /\ backend_height = <<>>
    /\ BLOCK_CACHE = <<>>
    /\ handlers = [h \in 1..MaxHandlers |-> Idle]
    /\ server_ready_value = 1
    /\ api_process = [pc |-> "none"]
    /\ InitAPILedger

Handle == \E h \in Handlers : HandleRoute(h)
Lookup == \E h \in Handlers : CacheGet(h) \/ CacheHit(h)
Execute == \E h \in Handlers : CallRoute(h)
Store == \E h \in Handlers : CachePut(h) \/ CacheEvict(h)

NextAPI == Handle \/ Lookup \/ Execute \/ Store \/ WatcherParsesBlock \/ BackendHeightKnown

SpecAPI == InitAPI /\ [][NextAPI]_vars

NextAPIThreads == Handle \/ Lookup \/ Execute \/ Store \/ WatcherParsesBlock

SpecAPIThreads == InitAPIThreads /\ [][NextAPIThreads]_vars


---------------------------------------------------------------------------
(* The size of BLOCK_CACHE under concurrent handlers.                       *)

\* the handler h returns a response in this step
Completes(h) == handlers'[h] # handlers[h] /\ handlers'[h].pc = "done"

\* handlers that have stored their result and not yet run the eviction
Evicting == {h \in Handlers : handlers[h].pc = "pop"}

\* C37: after every completed API request, under any interleaving of
\* concurrent request handlers, BLOCK_CACHE holds at most
\* MAX_BLOCK_CACHE_SIZE entries; when an insertion exceeds the bound, the
\* entry evicted is the one inserted earliest (cache hits do not refresh an
\* entry's position).
C37_CacheBounded ==
    /\ [][(\E h \in Handlers : Completes(h)) => Len(BLOCK_CACHE') <= MAX_BLOCK_CACHE_SIZE]_vars
    /\ [][Len(BLOCK_CACHE') < Len(BLOCK_CACHE) => BLOCK_CACHE' = Tail(BLOCK_CACHE)]_vars

\* what holds instead: the cache exceeds the bound by at most one entry for
\* each handler between its insertion and its eviction
C37_BoundedButForEvicting ==
    Len(BLOCK_CACHE) <= MAX_BLOCK_CACHE_SIZE + Cardinality(Evicting)


---------------------------------------------------------------------------
(* What BLOCK_CACHE stores and whom it serves.  A handler reads the last    *)
(* parsed block once, in the first statement of execute_api_function: this  *)
(* is the block its request is handled at, and the block a result it stores *)
(* is cached at.                                                            *)

\* a route under /v2/blocks/ other than /v2/blocks/last
BlocksRoute(request) ==
    /\ startswith(request.path, <<"v2", "blocks", "">>)
    /\ ~startswith(request.path, <<"v2", "blocks", "last">>)

\* the handler h was served the cached result of a request of the same url
ServedFromCache(h) == handlers[h].pc = "done" /\ handlers[h].hit

\* requests whose results are never stored
NeverStored(request) ==
    \/ request.method = "POST"
    \/ contains(request.rule, "compose")
    \/ contains(request.rule, "mempool")
    \/ startswith(request.path, <<"v2", "mempool", "">>)
    \/ mentions(request.rule, "healthz")
    \/ request.function = "redirect_to_api_v1"
    \/ request.query = "show_unconfirmed=true"

\* C38: a result cached while the last parsed block was N is never returned
\* to a request handled when the last parsed block differs from N, except for
\* routes under /v2/blocks/ other than /v2/blocks/last, whose cached result
\* is served for the same URL at any later block; results of POST requests
\* and of compose, mempool, healthz, API v1 redirect and show_unconfirmed=true
\* requests, and null results, are never stored.
C38_CachedForOneBlock ==
    /\ \A h \in Handlers :
        ServedFromCache(h) =>
            /\ url(handlers[h].result.request) = url(handlers[h].request)
            /\ \/ handlers[h].result.block = handlers[h].current_block_index
               \/ BlocksRoute(handlers[h].request)
    /\ \A i \in DOMAIN BLOCK_CACHE :
        /\ ~NeverStored(BLOCK_CACHE[i].result.request)
        /\ BLOCK_CACHE[i].result.kind # "None"
        /\ BlocksRoute(BLOCK_CACHE[i].result.request) <=> BLOCK_CACHE[i].key.block = <<>>

\* the result of /v2/blocks/1 cached at one block is served at the next,
\* while another result is cached for the new block
C38_Witness ==
    /\ \E h \in Handlers :
        /\ ServedFromCache(h)
        /\ BlocksRoute(handlers[h].request)
        /\ handlers[h].result.block # handlers[h].current_block_index
        /\ \E i \in DOMAIN BLOCK_CACHE :
            BLOCK_CACHE[i].key.block = <<handlers[h].current_block_index>>


---------------------------------------------------------------------------
(* The responses of handle_route.  A handler's record keeps the request,    *)
(* whether it found the server ready (or FORCE set), whether the route      *)
(* function was called and whether BLOCK_CACHE was read or written for it   *)
(* (the key is built only when execute_api_function starts).                *)

\* the handler h works on a request or has answered one
Handling(h) == handlers[h].pc # "idle"

\* the request of h was answered 503 before anything else was done
Answered503(h) ==
    /\ handlers[h].pc = "done"
    /\ handlers[h].response = "503"
    /\ ~handlers[h].called
    /\ ~handlers[h].hit
    /\ handlers[h].key = Idle.key

\* FORCE and API_ONLY are off, the server is not ready and the rule is not
\* one that is answered anyway
RefusedNotReady(h) ==
    /\ ~api_config.FORCE
    /\ ~api_config.API_ONLY
    /\ ~handlers[h].ready
    /\ handlers[h].request.rule # <<"v2", "">>
    /\ handlers[h].request.rule # <<"">>
    /\ ~startswith(handlers[h].request.rule, <<"v1">>)
    /\ ~startswith(handlers[h].request.rule, <<"rpc">>)

AnyResponse == {"200", "204", "400", "404", "500", "503", "proxied"}

---------------------------------------------------------------------------
(* The life of the API server process: APIServer.start spawns a process     *)
(* that runs run_apiserver; server_ready_value is shared between the two.   *)
(* api_process keeps APIServer.process, the position of run_apiserver and   *)
(* what it has set up, the stop_event of the main process and the position  *)
(* of APIServer.stop.  Every call of run_apiserver may raise; SIGTERM is    *)
(* ignored once the signal handlers are installed, SIGKILL never.           *)

\* APIServer.__init__: no process, and nothing set up
NoProcess ==
    [process |-> "None", alive |-> FALSE, spawned |-> 0, error |-> "none", pc |-> "none",
     args |-> "none", checked |-> FALSE, watcher |-> "None", wsgi_server |-> "None",
     pools |-> "open", stop_event |-> FALSE, stopping |-> "no"]

\* args["rebuild_state_db"], args["refresh_state_db"], or neither
StateDBArgs == {"rebuild_state_db", "refresh_state_db", "migrate"}

InitAPIServer ==
    /\ api_config = [FORCE |-> FALSE, API_ONLY |-> FALSE, DISABLE_API_CACHE |-> FALSE]
    /\ last_block_parsed = FirstBlock
    /\ backend_height = <<>>
    /\ BLOCK_CACHE = <<>>
    /\ handlers = <<Idle>>
    /\ server_ready_value = 0
    /\ api_process = NoProcess
    /\ InitAPILedger

\* what the life of the process leaves alone
outside_process == <<api_config, last_block_parsed, backend_height, BLOCK_CACHE, handlers,
                     ledger>>

\* the process runs run_apiserver at the position pc
Running(pc) == api_process.alive /\ api_process.pc = pc

\* APIServer.start
APIServerStart ==
    /\ IF api_process.process # "None"
       THEN api_process' = [api_process EXCEPT !.error = "APIError"]
       ELSE \E args \in StateDBArgs, started \in BOOLEAN :
               api_process' =
                   IF started
                   THEN [api_process EXCEPT !.process = "Process", !.alive = TRUE,
                             !.spawned = @ + 1, !.pc = "setup", !.args = args]
                   ELSE [api_process EXCEPT !.process = "Process", !.error = "Exception"]
    /\ UNCHANGED <<server_ready_value, outside_process>>

\* run_apiserver 499-517: signal handlers, Sentry, log and config, and the
\* state DB rebuilt, refreshed or migrated
SetUp ==
    /\ Running("setup")
    /\ \E raises \in BOOLEAN :
        api_process' = [api_process EXCEPT !.pc = IF raises THEN "finally" ELSE "check"]
    /\ UNCHANGED <<server_ready_value, outside_process>>

\* run_apiserver 519-522: check_database_version(state_db)
CheckDatabaseVersion ==
    /\ Running("check")
    /\ \E raises \in BOOLEAN :
        api_process' = IF raises THEN [api_process EXCEPT !.pc = "finally"]
                       ELSE [api_process EXCEPT !.pc = "watch", !.checked = TRUE]
    /\ UNCHANGED <<server_ready_value, outside_process>>

\* run_apiserver 524-528: the caches, watcher = APIWatcher(state_db),
\* watcher.start()
StartWatcher ==
    /\ Running("watch")
    /\ \E outcome \in {"started", "not created", "not started"} :
        api_process' =
            IF outcome = "started"
            THEN [api_process EXCEPT !.pc = "wsgi", !.watcher = "started"]
            ELSE IF outcome = "not created" THEN [api_process EXCEPT !.pc = "finally"]
            ELSE [api_process EXCEPT !.pc = "finally", !.watcher = "created"]
    /\ UNCHANGED <<server_ready_value, outside_process>>

\* run_apiserver 530-537: init_flask_app and WSGIApplication(app, args);
\* OSError ends in sys.exit(1), which runs the finally block
ConstructWSGI ==
    /\ Running("wsgi")
    /\ \E raises \in BOOLEAN :
        api_process' = IF raises THEN [api_process EXCEPT !.pc = "finally"]
                       ELSE [api_process EXCEPT !.pc = "ready", !.wsgi_server = "constructed"]
    /\ UNCHANGED <<server_ready_value, outside_process>>

\* run_apiserver 539-544: the parent checker is started and
\* server_ready_value.value = 1
BecomeReady ==
    /\ Running("ready")
    /\ \E raises \in BOOLEAN :
        IF raises
        THEN /\ api_process' = [api_process EXCEPT !.pc = "finally"]
             /\ UNCHANGED server_ready_value
        ELSE /\ api_process' = [api_process EXCEPT !.pc = "run"]
             /\ server_ready_value' = 1
    /\ UNCHANGED outside_process

\* ParentProcessChecker.run: the stop_event is set (or the parent is gone):
\* wsgi_server.stop()
ParentProcessChecker ==
    /\ Running("run")
    /\ api_process.stop_event
    /\ api_process.wsgi_server = "constructed"
    /\ api_process' = [api_process EXCEPT !.wsgi_server = "stopped"]
    /\ UNCHANGED <<server_ready_value, outside_process>>

\* run_apiserver 546: wsgi_server.run returns once the server is stopped
Serve ==
    /\ Running("run")
    /\ api_process.wsgi_server = "stopped"
    /\ api_process' = [api_process EXCEPT !.pc = "finally"]
    /\ UNCHANGED <<server_ready_value, outside_process>>

\* run_apiserver 546: wsgi_server.run raises
ServeRaises ==
    /\ Running("run")
    /\ api_process.wsgi_server = "constructed"
    /\ api_process' = [api_process EXCEPT !.pc = "finally"]
    /\ UNCHANGED <<server_ready_value, outside_process>>

\* the process ends with an exception raised in the finally block
Raised == [api_process EXCEPT !.pc = "raised", !.alive = FALSE]

\* run_apiserver 551-553: wsgi_server.stop() when there is one
StopWSGI ==
    /\ Running("finally")
    /\ \E raises \in BOOLEAN :
        api_process' =
            IF api_process.wsgi_server = "None" THEN [api_process EXCEPT !.pc = "close"]
            ELSE IF raises THEN Raised
            ELSE [api_process EXCEPT !.pc = "close", !.wsgi_server = "stopped"]
    /\ UNCHANGED <<server_ready_value, outside_process>>

\* run_apiserver 555-557: both connection pools are closed
ClosePools ==
    /\ Running("close")
    /\ \E raises \in BOOLEAN :
        api_process' = IF raises THEN Raised
                       ELSE [api_process EXCEPT !.pc = "join", !.pools = "closed"]
    /\ UNCHANGED <<server_ready_value, outside_process>>

\* run_apiserver 559-561: watcher.stop() and watcher.join() when there is
\* one; join raises RuntimeError for a thread that was never started
JoinWatcher ==
    /\ Running("join")
    /\ api_process' =
        IF api_process.watcher = "None" THEN [api_process EXCEPT !.pc = "set"]
        ELSE IF api_process.watcher = "created" THEN Raised
        ELSE [api_process EXCEPT !.pc = "set", !.watcher = "joined"]
    /\ UNCHANGED <<server_ready_value, outside_process>>

\* run_apiserver 563-564: server_ready_value.value = 2, and the process ends
SetStopped ==
    /\ Running("set")
    /\ server_ready_value' = 2
    /\ api_process' = [api_process EXCEPT !.pc = "returned", !.alive = FALSE]
    /\ UNCHANGED outside_process

\* the main process shuts down: stop_event.set()
Shutdown ==
    /\ api_process.process # "None"
    /\ ~api_process.stop_event
    /\ api_process' = [api_process EXCEPT !.stop_event = TRUE]
    /\ UNCHANGED <<server_ready_value, outside_process>>

\* APIServer.stop 622-627: SIGTERM to a process that is alive.  The handler
\* run_apiserver installs ignores it; before that it ends the process
APIServerStop ==
    /\ api_process.process # "None"
    /\ api_process.stopping = "no"
    /\ api_process' =
        IF ~api_process.alive THEN [api_process EXCEPT !.stopping = "done"]
        ELSE IF api_process.pc = "setup"
        THEN [api_process EXCEPT !.stopping = "joining", !.alive = FALSE, !.pc = "terminated"]
        ELSE [api_process EXCEPT !.stopping = "joining"]
    /\ UNCHANGED <<server_ready_value, outside_process>>

\* APIServer.stop 629-632: join(timeout=10) is over; a process that is
\* still alive is killed
JoinTimeout ==
    /\ api_process.stopping = "joining"
    /\ api_process' =
        IF api_process.alive
        THEN [api_process EXCEPT !.stopping = "done", !.alive = FALSE, !.pc = "killed"]
        ELSE [api_process EXCEPT !.stopping = "done"]
    /\ UNCHANGED <<server_ready_value, outside_process>>

\* the steps of the process that runs run_apiserver
RunAPIServer ==
    \/ SetUp \/ CheckDatabaseVersion \/ StartWatcher \/ ConstructWSGI \/ BecomeReady
    \/ ParentProcessChecker \/ Serve \/ StopWSGI \/ ClosePools \/ JoinWatcher \/ SetStopped

NextAPIServer ==
    APIServerStart \/ RunAPIServer \/ ServeRaises \/ Shutdown \/ APIServerStop \/ JoinTimeout

\* the process is scheduled until it ends, the main process shuts down in
\* the end, and a join that was started times out
SpecAPIServer ==
    /\ InitAPIServer
    /\ [][NextAPIServer]_vars
    /\ WF_vars(RunAPIServer)
    /\ WF_vars(Shutdown)
    /\ WF_vars(JoinTimeout)


\* APIServer.is_ready and APIServer.has_stopped
is_ready == server_ready_value = 1
has_stopped == server_ready_value = 2

\* 0 -> 1 -> 2, or 0 -> 2, and nothing after 2
ReadyValueStep ==
    \/ server_ready_value' = server_ready_value
    \/ server_ready_value = 0 /\ server_ready_value' \in {1, 2}
    \/ server_ready_value = 1 /\ server_ready_value' = 2

\* what has been done when the value is 1, and when it is 2
ReadyValueMeans ==
    /\ is_ready => /\ api_process.checked
                   /\ api_process.watcher \in {"started", "joined"}
                   /\ api_process.wsgi_server \in {"constructed", "stopped"}
    /\ has_stopped => /\ api_process.wsgi_server \in {"None", "stopped"}
                      /\ api_process.pools = "closed"
                      /\ api_process.watcher \in {"None", "joined"}

\* a second call of start raises APIError and spawns nothing
StartedOnce ==
    /\ api_process.spawned <= 1
    /\ api_process.error = "APIError" => api_process.process # "None"

\* run_apiserver has been entered and has installed its signal handlers
RunEntered == api_process.spawned > 0 /\ api_process.pc \notin {"setup", "terminated"}

\* C40: server_ready_value only moves 0 -> 1 -> 2, or 0 -> 2 when startup
\* fails, and never leaves 2; is_ready() is true only after the state-DB
\* version check, watcher start and WSGI server construction have all
\* succeeded; has_stopped() becomes true only after the WSGI server was
\* stopped, both connection pools closed and the watcher joined; every run of
\* run_apiserver eventually reaches 2; calling APIServer.start a second time
\* raises APIError and spawns no second process.
C40_ReadyValue ==
    /\ [][ReadyValueStep]_vars
    /\ [](ReadyValueMeans /\ StartedOnce)
    /\ RunEntered ~> has_stopped

\* what holds of C40: everything but that every run reaches 2
C40_ReadyValueWhileRunning ==
    /\ [][ReadyValueStep]_vars
    /\ [](ReadyValueMeans /\ StartedOnce)


\* the process was killed by APIServer.stop while it was serving
KilledWhileReady == api_process.pc = "killed" /\ is_ready /\ api_process.stopping = "done"

====
